---- MODULE Spec2Model ----
(***************************************************************************)
(* Model of the schema parser of quasar-goframe-dev (the second program of *)
(* src/unnamed/part_001, lines 1876-3146): source-structure extraction,    *)
(* OpenAPI extraction, entity-name normalisation, consolidation and        *)
(* stabilisation.                                                          *)
(*                                                                         *)
(* Go strings that the program inspects character by character (names,     *)
(* tags, paths) are sequences of one-character strings; strings the        *)
(* program only compares with literals or copies (descriptions,           *)
(* validation rules, provenance, format hints) are TLA+ strings.           *)
(***************************************************************************)
EXTENDS Integers, Sequences, FiniteSets, TLC

VARIABLES
    pc,            \* position of main(): "walk", "openapi", "dump", "consolidate", "write", "done", "exit1" ("idle" when a function is exercised alone)
    walked,        \* the paths the directory walk has visited, in order
    openapi,       \* pointer to the OpenAPI document that was loaded (<<>>: none)
    schema,        \* the accumulator (SchemaMap): key -> TableMetadata
    consolidated,  \* the ConsolidatedSchema, Nil before consolidation
    rawFile,       \* state of the raw dump file
    outFile,       \* state of the consolidated output file
    fnPc,          \* "call" / "ret" when a single function is exercised, "idle" otherwise
    fnIn,          \* the argument(s) of the exercised function
    fnOut          \* its result (or running result)

pipeVars == <<pc, walked, openapi, schema, consolidated, rawFile, outFile>>
fnVars == <<fnPc, fnIn, fnOut>>
vars == <<pc, walked, openapi, schema, consolidated, rawFile, outFile, fnPc, fnIn, fnOut>>


(***************************************************************************)
(* Strings                                                                 *)
(***************************************************************************)

\* The characters that occur in the modelled inputs, in ASCII order.
Ascii ==
    <<" ", "#", "+", ",", "-", ".", "/",
      "0", "1", "2", "3", "4", "5", "6", "7", "8", "9", ":", "=",
      "A", "B", "C", "D", "E", "F", "G", "H", "I", "J", "K", "L", "M",
      "N", "O", "P", "Q", "R", "S", "T", "U", "V", "W", "X", "Y", "Z",
      "_",
      "a", "b", "c", "d", "e", "f", "g", "h", "i", "j", "k", "l", "m",
      "n", "o", "p", "q", "r", "s", "t", "u", "v", "w", "x", "y", "z",
      "{", "|", "}">>

OrdOf == [c \in {Ascii[i] : i \in 1..Len(Ascii)} |-> CHOOSE i \in 1..Len(Ascii) : Ascii[i] = c]
Ord(c) == OrdOf[c]

UpperFirst == Ord("A")
LowerFirst == Ord("a")
IsUpper(c) == Ord(c) >= UpperFirst /\ Ord(c) < UpperFirst + 26
IsLower(c) == Ord(c) >= LowerFirst /\ Ord(c) < LowerFirst + 26

\* strings.ToLower / strings.ToUpper on one character
LowerChar(c) == IF IsUpper(c) THEN Ascii[Ord(c) - UpperFirst + LowerFirst] ELSE c
UpperChar(c) == IF IsLower(c) THEN Ascii[Ord(c) - LowerFirst + UpperFirst] ELSE c

ToLower(s) == [i \in 1..Len(s) |-> LowerChar(s[i])]
ToUpper(s) == [i \in 1..Len(s) |-> UpperChar(s[i])]

\* Go's < on strings: bytewise lexicographic order
RECURSIVE StrLess(_, _)
StrLess(a, b) ==
    IF b = <<>> THEN FALSE
    ELSE IF a = <<>> THEN TRUE
    ELSE IF Ord(a[1]) < Ord(b[1]) THEN TRUE
    ELSE IF Ord(a[1]) > Ord(b[1]) THEN FALSE
    ELSE StrLess(Tail(a), Tail(b))

HasPrefix(s, p) == Len(s) >= Len(p) /\ SubSeq(s, 1, Len(p)) = p
HasSuffix(s, p) == Len(s) >= Len(p) /\ SubSeq(s, Len(s) - Len(p) + 1, Len(s)) = p
TrimPrefix(s, p) == IF HasPrefix(s, p) THEN SubSeq(s, Len(p) + 1, Len(s)) ELSE s
TrimSuffix(s, p) == IF HasSuffix(s, p) THEN SubSeq(s, 1, Len(s) - Len(p)) ELSE s

\* strings.TrimSpace (the only white space of the modelled inputs is " ")
RECURSIVE TrimLeft(_, _)
TrimLeft(s, c) == IF s # <<>> /\ s[1] = c THEN TrimLeft(Tail(s), c) ELSE s
RECURSIVE TrimRight(_, _)
TrimRight(s, c) ==
    IF s # <<>> /\ s[Len(s)] = c THEN TrimRight(SubSeq(s, 1, Len(s) - 1), c) ELSE s
TrimSpace(s) == TrimRight(TrimLeft(s, " "), " ")
\* strings.Trim(s, cutset) for a one-character cutset
Trim(s, c) == TrimRight(TrimLeft(s, c), c)

\* strings.ReplaceAll(s, c, "") for a one-character c
RECURSIVE RemoveChar(_, _)
RemoveChar(s, c) ==
    IF s = <<>> THEN <<>>
    ELSE IF s[1] = c THEN RemoveChar(Tail(s), c)
    ELSE <<s[1]>> \o RemoveChar(Tail(s), c)

\* strings.Index(s, c) for a one-character c, 0 when absent (Go: -1)
IndexOf(s, c) ==
    IF \E i \in 1..Len(s) : s[i] = c
    THEN CHOOSE i \in 1..Len(s) : s[i] = c /\ \A j \in 1..(i - 1) : s[j] # c
    ELSE 0

\* strings.Split(s, c) for a one-character separator
RECURSIVE Split(_, _)
Split(s, c) ==
    LET i == IndexOf(s, c)
    IN  IF i = 0 THEN <<s>>
        ELSE <<SubSeq(s, 1, i - 1)>> \o Split(SubSeq(s, i + 1, Len(s)), c)

\* fmt.Sprintf("%d", n) for n >= 0
Digit(d) == Ascii[Ord("0") + d]
RECURSIVE Itoa(_)
Itoa(n) == IF n < 10 THEN <<Digit(n)>> ELSE Itoa(n \div 10) \o <<Digit(n % 10)>>

SeqToSet(s) == {s[i] : i \in 1..Len(s)}

(***************************************************************************)
(* normalizeEntityName (schema parser)                                     *)
(***************************************************************************)

suffixes ==
    << <<"R", "e", "q">>,
       <<"R", "e", "q", "u", "e", "s", "t">>,
       <<"R", "e", "s">>,
       <<"R", "e", "s", "p", "o", "n", "s", "e">>,
       <<"I", "n", "p", "u", "t">>,
       <<"O", "u", "t", "p", "u", "t">>,
       <<"C", "r", "e", "a", "t", "e">>,
       <<"U", "p", "d", "a", "t", "e">>,
       <<"A", "d", "d">>,
       <<"E", "d", "i", "t">>,
       <<"D", "e", "l", "e", "t", "e">>,
       <<"I", "t", "e", "m">>,
       <<"D", "e", "t", "a", "i", "l">>,
       <<"L", "i", "s", "t">>,
       <<"G", "e", "t">>,
       <<"Q", "u", "e", "r", "y">>,
       <<"F", "o", "r", "m">>,
       <<"D", "t", "o">>,
       <<"D", "T", "O">> >>

prefixes == << <<"V", "1">>, <<"V", "2">>, <<"A", "p", "i">> >>

\* for _, pre := range prefixes { cleaned = strings.TrimPrefix(cleaned, pre) }
RECURSIVE TrimPrefixes(_, _)
TrimPrefixes(s, ps) ==
    IF ps = <<>> THEN s ELSE TrimPrefixes(TrimPrefix(s, Head(ps)), Tail(ps))

\* for _, suf := range suffixes { cleaned = strings.TrimSuffix(cleaned, suf) }
RECURSIVE TrimSuffixes(_, _)
TrimSuffixes(s, ss) ==
    IF ss = <<>> THEN s ELSE TrimSuffixes(TrimSuffix(s, Head(ss)), Tail(ss))

\* the mutant: the fallback to the raw name is missing
normalizeEntityName_NoFallback(name) ==
    TrimSuffix(TrimSuffixes(TrimPrefixes(name, prefixes), suffixes), <<"s">>)

\* the mutant: the trailing plural "s" is left in place
normalizeEntityName_NoPlural(name) ==
    LET cleaned == TrimSuffixes(TrimPrefixes(name, prefixes), suffixes)
    IN  IF cleaned = <<>> THEN name ELSE cleaned

normalizeEntityName(name) ==
    LET cleaned == TrimSuffix(TrimSuffixes(TrimPrefixes(name, prefixes), suffixes), <<"s">>)
    IN  IF cleaned = <<>> THEN name ELSE cleaned

(***************************************************************************)
(* Data model.  A Go pointer or optional value is a sequence: <<>> is nil, *)
(* <<v>> points to v.  A slice is a sequence (a nil slice and an empty     *)
(* slice are both <<>>).  A Go map is a function.                          *)
(*                                                                         *)
(* TableMetadata    [StructName, NormalizedName, Source, Columns,          *)
(*                   Relations, Operations]                                *)
(* ColumnInfo       [Name, JSONName, Type, Validation, Description,        *)
(*                   Additional, Constraints, Ref, IsArray, Source]        *)
(* FieldConstraints [Required, Nullable, MinLength, MaxLength, Minimum,    *)
(*                   Maximum, Pattern, Format, Enum]                       *)
(* RelationNode     [FieldName, TargetStruct, IsCollection, TargetKey,     *)
(*                   SourceKey, Validation, Description]                   *)
(* OperationInfo    [Method, Path, OperationID, Summary, Tags,             *)
(*                   RequestSchema, ResponseSchema, Source]                *)
(* float64 bounds (Minimum, Maximum) are integers: the program only        *)
(* compares them.                                                          *)
(***************************************************************************)

EmptyMap == [k \in {} |-> <<>>]

sUnknown == <<"U", "n", "k", "n", "o", "w", "n">>

(***************************************************************************)
(* putSchema                                                               *)
(***************************************************************************)

\* key = fmt.Sprintf("%s__%d", base, i)
SuffixedKey(base, i) == base \o <<"_", "_">> \o Itoa(i)

\* the loop of putSchema: the first of base, base__2, base__3, ... that is free
RECURSIVE putSchemaKey(_, _, _, _)
putSchemaKey(m, base, i, key) ==
    IF key \notin DOMAIN m THEN key
    ELSE putSchemaKey(m, base, i + 1, SuffixedKey(base, i))

\* the mutant: the record is stored under its raw name, overwriting
putSchema_Overwrite(m, table) ==
    [k \in (DOMAIN m) \cup {table.StructName} |->
        IF k = table.StructName THEN table ELSE m[k]]

putSchema(m, table) ==
    LET key == putSchemaKey(m, table.StructName, 2, table.StructName)
    IN  [k \in (DOMAIN m) \cup {key} |-> IF k = key THEN table ELSE m[k]]

(***************************************************************************)
(* Identity keys                                                           *)
(***************************************************************************)

columnKey(c) ==
    LET s == IF c.JSONName = <<>> THEN c.Name ELSE c.JSONName
    IN  RemoveChar(RemoveChar(ToLower(TrimSpace(s)), "_"), "-")

relationKey(r) ==
    ToLower(TrimSpace(r.FieldName)) \o <<"|">> \o
    ToLower(TrimSpace(r.TargetStruct)) \o <<"|">> \o
    ToLower(TrimSpace(r.TargetKey)) \o <<"|">> \o
    ToLower(TrimSpace(r.SourceKey))

operationKey(op) == op.Method \o <<"|">> \o op.Path \o <<"|">> \o op.OperationID

(***************************************************************************)
(* Constraint merge                                                        *)
(***************************************************************************)

constraintsEmpty(c) ==
    ~ ( c.Required \/ c.Nullable
        \/ c.MinLength # <<>> \/ c.MaxLength # <<>>
        \/ c.Minimum # <<>> \/ c.Maximum # <<>>
        \/ c.Pattern # "" \/ c.Format # ""
        \/ Len(c.Enum) > 0 )

\* the mutant: the first bound always wins
pickIntPtrMax_KeepFirst(a, b) == IF a = <<>> THEN b ELSE a

pickIntPtrMax(a, b) ==
    IF a = <<>> THEN b
    ELSE IF b = <<>> THEN a
    ELSE IF b[1] > a[1] THEN b ELSE a

pickIntPtrMin(a, b) ==
    IF a = <<>> THEN b
    ELSE IF b = <<>> THEN a
    ELSE IF b[1] < a[1] THEN b ELSE a

pickFloatPtrMax(a, b) ==
    IF a = <<>> THEN b
    ELSE IF b = <<>> THEN a
    ELSE IF b[1] > a[1] THEN b ELSE a

pickFloatPtrMin(a, b) ==
    IF a = <<>> THEN b
    ELSE IF b = <<>> THEN a
    ELSE IF b[1] < a[1] THEN b ELSE a

\* a and b are pointers (<<>> or <<FieldConstraints>>); so is the result
mergeConstraints(a, b) ==
    IF a = <<>> /\ b = <<>> THEN <<>>
    ELSE IF a = <<>> THEN b
    ELSE IF b = <<>> THEN a
    ELSE LET x == a[1]
             y == b[1]
             out == [ Required  |-> x.Required \/ y.Required,
                      Nullable  |-> x.Nullable \/ y.Nullable,
                      MinLength |-> pickIntPtrMax(x.MinLength, y.MinLength),
                      MaxLength |-> pickIntPtrMin(x.MaxLength, y.MaxLength),
                      Minimum   |-> pickFloatPtrMax(x.Minimum, y.Minimum),
                      Maximum   |-> pickFloatPtrMin(x.Maximum, y.Maximum),
                      Pattern   |-> IF x.Pattern = "" THEN y.Pattern ELSE x.Pattern,
                      Format    |-> IF x.Format = "" THEN y.Format ELSE x.Format,
                      Enum      |-> IF Len(x.Enum) = 0 /\ Len(y.Enum) > 0
                                    THEN y.Enum ELSE x.Enum ]
         IN  IF constraintsEmpty(out) THEN <<>> ELSE <<out>>

(***************************************************************************)
(* Column, relation and operation merge                                    *)
(***************************************************************************)

\* the mutant: the incoming value wins whenever it is not empty
mergeColumn_PreferIncoming(a, b) ==
    [ Name        |-> IF b.Name = <<>> THEN a.Name ELSE b.Name,
      JSONName    |-> IF b.JSONName = <<>> THEN a.JSONName ELSE b.JSONName,
      Type        |-> IF b.Type = <<>> THEN a.Type ELSE b.Type,
      Description |-> IF b.Description = "" THEN a.Description ELSE b.Description,
      Validation  |-> IF b.Validation = "" THEN a.Validation ELSE b.Validation,
      Additional  |-> IF b.Additional = "" THEN a.Additional ELSE b.Additional,
      Ref         |-> IF b.Ref = <<>> THEN a.Ref ELSE b.Ref,
      IsArray     |-> a.IsArray \/ b.IsArray,
      Constraints |-> mergeConstraints(a.Constraints, b.Constraints),
      Source      |-> IF b.Source = "" THEN a.Source ELSE b.Source ]

mergeColumn(a, b) ==
    [ Name        |-> IF a.Name = <<>> THEN b.Name ELSE a.Name,
      JSONName    |-> IF a.JSONName = <<>> THEN b.JSONName ELSE a.JSONName,
      Type        |-> IF (a.Type = <<>> \/ a.Type = sUnknown) /\ b.Type # <<>>
                      THEN b.Type ELSE a.Type,
      Description |-> IF a.Description = "" THEN b.Description ELSE a.Description,
      Validation  |-> IF a.Validation = "" THEN b.Validation ELSE a.Validation,
      Additional  |-> IF a.Additional = "" THEN b.Additional ELSE a.Additional,
      Ref         |-> IF a.Ref = <<>> THEN b.Ref ELSE a.Ref,
      IsArray     |-> a.IsArray \/ b.IsArray,
      Constraints |-> mergeConstraints(a.Constraints, b.Constraints),
      Source      |-> IF a.Source = "" THEN b.Source ELSE a.Source ]

\* index[columnKey((*dst)[i])] = i for i ascending: the last index holding key k
IndexOfKey(dst, k) ==
    IF \E i \in 1..Len(dst) : columnKey(dst[i]) = k
    THEN CHOOSE i \in 1..Len(dst) :
            columnKey(dst[i]) = k /\ \A j \in (i + 1)..Len(dst) : columnKey(dst[j]) # k
    ELSE 0

\* the mutant: every incoming column is appended
mergeColumns_Append(dst, src) == dst \o src

\* The index map is built once from dst and then updated on each append, so
\* looking the key up in the current dst gives the same index.
RECURSIVE mergeColumns(_, _)
mergeColumns(dst, src) ==
    IF src = <<>> THEN dst
    ELSE LET c == Head(src)
             k == columnKey(c)
             i == IndexOfKey(dst, k)
         IN  IF k = <<>> THEN mergeColumns(dst, Tail(src))
             ELSE IF i # 0
                  THEN mergeColumns([dst EXCEPT ![i] = mergeColumn(dst[i], c)], Tail(src))
                  ELSE mergeColumns(Append(dst, c), Tail(src))

\* the mutant: a relation already present is appended again
mergeRelations_Append(dst, src) == dst \o src

RECURSIVE mergeRelations(_, _)
mergeRelations(dst, src) ==
    IF src = <<>> THEN dst
    ELSE LET r == Head(src)
             k == relationKey(r)
         IN  IF k = <<>> \/ (\E i \in 1..Len(dst) : relationKey(dst[i]) = k)
             THEN mergeRelations(dst, Tail(src))
             ELSE mergeRelations(Append(dst, r), Tail(src))

RECURSIVE mergeOperations(_, _)
mergeOperations(dst, src) ==
    IF src = <<>> THEN dst
    ELSE LET op == Head(src)
             k == operationKey(op)
         IN  IF k = <<>> \/ (\E i \in 1..Len(dst) : operationKey(dst[i]) = k)
             THEN mergeOperations(dst, Tail(src))
             ELSE mergeOperations(Append(dst, op), Tail(src))

cloneTableMetadata(in) ==
    [ StructName     |-> in.StructName,
      NormalizedName |-> in.NormalizedName,
      Source         |-> in.Source,
      Columns        |-> in.Columns,
      Relations      |-> in.Relations,
      Operations     |-> in.Operations ]

\* dst.Source is set to "merged" first, so the struct-name test reads "merged"
\* the mutant: the struct name of the first record is kept
mergeTableMetadata_KeepName(dst, src) ==
    [ StructName     |-> dst.StructName,
      NormalizedName |-> dst.NormalizedName,
      Source         |-> "merged",
      Columns        |-> mergeColumns(dst.Columns, src.Columns),
      Relations      |-> mergeRelations(dst.Relations, src.Relations),
      Operations     |-> mergeOperations(dst.Operations, src.Operations) ]

mergeTableMetadata(dst, src) ==
    [ StructName     |-> IF (dst.StructName = <<>> \/ src.Source = "openapi")
                            /\ src.StructName # <<>>
                         THEN src.StructName ELSE dst.StructName,
      NormalizedName |-> dst.NormalizedName,
      Source         |-> "merged",
      Columns        |-> mergeColumns(dst.Columns, src.Columns),
      Relations      |-> mergeRelations(dst.Relations, src.Relations),
      Operations     |-> mergeOperations(dst.Operations, src.Operations) ]

(***************************************************************************)
(* stabilizeTableMetadata.  sort.Slice on a slice of fewer than 12         *)
(* elements is an insertion sort: an element moves left while it is less   *)
(* than its predecessor.                                                   *)
(***************************************************************************)

WireName(c) == IF c.JSONName = <<>> THEN c.Name ELSE c.JSONName

columnLess(a, b) == StrLess(WireName(a), WireName(b))

operationLess(a, b) ==
    IF a.Path = b.Path THEN StrLess(a.Method, b.Method) ELSE StrLess(a.Path, b.Path)

RECURSIVE insertColumn(_, _)
insertColumn(s, x) ==
    IF s # <<>> /\ columnLess(x, s[Len(s)])
    THEN Append(insertColumn(SubSeq(s, 1, Len(s) - 1), x), s[Len(s)])
    ELSE Append(s, x)

RECURSIVE sortColumnsFrom(_, _)
sortColumnsFrom(done, rest) ==
    IF rest = <<>> THEN done ELSE sortColumnsFrom(insertColumn(done, Head(rest)), Tail(rest))

\* the mutant: the columns are left in merge order
sortColumns_Unsorted(cols) == cols

sortColumns(cols) == sortColumnsFrom(<<>>, cols)

RECURSIVE insertOperation(_, _)
insertOperation(s, x) ==
    IF s # <<>> /\ operationLess(x, s[Len(s)])
    THEN Append(insertOperation(SubSeq(s, 1, Len(s) - 1), x), s[Len(s)])
    ELSE Append(s, x)

RECURSIVE sortOperationsFrom(_, _)
sortOperationsFrom(done, rest) ==
    IF rest = <<>> THEN done
    ELSE sortOperationsFrom(insertOperation(done, Head(rest)), Tail(rest))

sortOperations(ops) == sortOperationsFrom(<<>>, ops)

stabilizeTableMetadata(t) ==
    [t EXCEPT !.Columns = sortColumns(t.Columns), !.Operations = sortOperations(t.Operations)]

(***************************************************************************)
(* consolidateByNormalizedName.  Go visits the entries of a map in an      *)
(* unspecified order: order is the sequence of keys in which the range     *)
(* over the accumulator visits them.                                       *)
(***************************************************************************)

\* the permutations of a finite set, as sequences
RECURSIVE Perms(_)
Perms(S) ==
    IF S = {} THEN {<<>>}
    ELSE UNION {{<<x>> \o p : p \in Perms(S \ {x})} : x \in S}

\* sort.Strings on the elements of a set of strings
RECURSIVE SortStrings(_)
SortStrings(S) ==
    IF S = {} THEN <<>>
    ELSE LET m == CHOOSE x \in S : \A y \in S \ {x} : StrLess(x, y)
         IN  <<m>> \o SortStrings(S \ {m})

entryNorm(entry) ==
    IF entry.NormalizedName = <<>> THEN normalizeEntityName(entry.StructName)
    ELSE entry.NormalizedName

\* the mutant: a later record of a group replaces the entity instead of merging into it
RECURSIVE consolidateEntities_Replace(_, _, _)
consolidateEntities_Replace(m, order, entities) ==
    IF order = <<>> THEN entities
    ELSE LET entry == m[Head(order)]
             norm == entryNorm(entry)
         IN  IF norm = <<>> THEN consolidateEntities_Replace(m, Tail(order), entities)
             ELSE consolidateEntities_Replace(m, Tail(order),
                    [k \in (DOMAIN entities) \cup {norm} |->
                        IF k = norm THEN cloneTableMetadata(entry) ELSE entities[k]])

\* the first loop: entities, keyed by normalized name
RECURSIVE consolidateEntities(_, _, _)
consolidateEntities(m, order, entities) ==
    IF order = <<>> THEN entities
    ELSE LET entry == m[Head(order)]
             norm == entryNorm(entry)
         IN  IF norm = <<>> THEN consolidateEntities(m, Tail(order), entities)
             ELSE IF norm \in DOMAIN entities
                  THEN consolidateEntities(m, Tail(order),
                         [entities EXCEPT ![norm] = mergeTableMetadata(entities[norm], entry)])
                  ELSE consolidateEntities(m, Tail(order),
                         [k \in (DOMAIN entities) \cup {norm} |->
                             IF k = norm THEN cloneTableMetadata(entry) ELSE entities[k]])

RECURSIVE insertEntity(_, _)
insertEntity(s, x) ==
    IF s # <<>> /\ StrLess(x.NormalizedName, s[Len(s)].NormalizedName)
    THEN Append(insertEntity(SubSeq(s, 1, Len(s) - 1), x), s[Len(s)])
    ELSE Append(s, x)

RECURSIVE sortEntitiesFrom(_, _)
sortEntitiesFrom(done, rest) ==
    IF rest = <<>> THEN done ELSE sortEntitiesFrom(insertEntity(done, Head(rest)), Tail(rest))

\* The entities are visited in map order, stabilized, appended to the list and
\* the list is sorted by NormalizedName.  The normalized names of the entities
\* the extractors produce are their keys, hence distinct, and the sorted list
\* does not depend on the order of that second visit: it is taken by key.
consolidateByNormalizedName(m, order) ==
    LET merged == consolidateEntities(m, order, EmptyMap)
        entities == [k \in DOMAIN merged |-> stabilizeTableMetadata(merged[k])]
        keys == SortStrings(DOMAIN entities)
        list == [i \in 1..Len(keys) |-> entities[keys[i]]]
    IN  [ Entities    |-> entities,
          EntityList  |-> sortEntitiesFrom(<<>>, list),
          GeneratedBy |-> "schema-architect" ]

(***************************************************************************)
(* Names and records used as inputs                                        *)
(***************************************************************************)

sUser == <<"U", "s", "e", "r">>
sCreateUser == <<"C", "r", "e", "a", "t", "e", "U", "s", "e", "r">>
sUserCreateReq == <<"U", "s", "e", "r", "C", "r", "e", "a", "t", "e", "R", "e", "q">>
sCreateUserReq == <<"C", "r", "e", "a", "t", "e", "U", "s", "e", "r", "R", "e", "q">>
sUser2 == <<"U", "s", "e", "r", "_", "_", "2">>
sUser3 == <<"U", "s", "e", "r", "_", "_", "3">>
sOrder == <<"O", "r", "d", "e", "r">>
sClass == <<"C", "l", "a", "s", "s">>
sReq == <<"R", "e", "q">>
sName == <<"N", "a", "m", "e">>
sname == <<"n", "a", "m", "e">>
sRoleIDs == <<"R", "o", "l", "e", "I", "D", "s">>
sroleIds == <<"r", "o", "l", "e", "I", "d", "s">>
srole_ids == <<"r", "o", "l", "e", "_", "i", "d", "s">>
sBlank == <<"_">>
sstring == <<"s", "t", "r", "i", "n", "g">>
sint == <<"i", "n", "t">>
sArrInt == <<"[", "]", "i", "n", "t">>
sid == <<"i", "d">>
suid == <<"u", "i", "d">>
sDetail == <<"D", "e", "t", "a", "i", "l">>
sdetail == <<"d", "e", "t", "a", "i", "l">>
sUserDetail == <<"U", "s", "e", "r", "D", "e", "t", "a", "i", "l">>
sPOST == <<"P", "O", "S", "T">>
sGET == <<"G", "E", "T">>
sPathUsers == <<"/", "u", "s", "e", "r", "s">>
sCreateUserOp == <<"c", "r", "e", "a", "t", "e", "U", "s", "e", "r">>
sListUsersOp == <<"l", "i", "s", "t", "U", "s", "e", "r", "s">>

Column(name, json, type, desc, cons, isArray, src) ==
    [ Name |-> name, JSONName |-> json, Type |-> type, Validation |-> "",
      Description |-> desc, Additional |-> "", Constraints |-> cons, Ref |-> <<>>,
      IsArray |-> isArray, Source |-> src ]

Constraint(req, nullable, minLen, maxLen, min, max, format) ==
    [ Required |-> req, Nullable |-> nullable, MinLength |-> minLen, MaxLength |-> maxLen,
      Minimum |-> min, Maximum |-> max, Pattern |-> "", Format |-> format, Enum |-> <<>> ]

Relation(field, target, isCollection, targetKey, sourceKey, desc) ==
    [ FieldName |-> field, TargetStruct |-> target, IsCollection |-> isCollection,
      TargetKey |-> targetKey, SourceKey |-> sourceKey, Validation |-> "",
      Description |-> desc ]

Operation(method, path, id, req, resp) ==
    [ Method |-> method, Path |-> path, OperationID |-> id, Summary |-> "",
      Tags |-> <<>>, RequestSchema |-> req, ResponseSchema |-> resp, Source |-> "openapi" ]

\* a record as the extractors build it: NormalizedName is normalizeEntityName(StructName)
Table(name, src, cols, rels, ops) ==
    [ StructName |-> name, NormalizedName |-> normalizeEntityName(name), Source |-> src,
      Columns |-> cols, Relations |-> rels, Operations |-> ops ]

\* the sequences over S of length at most n
RECURSIVE SeqsUpTo(_, _)
SeqsUpTo(S, n) ==
    IF n = 0 THEN {<<>>}
    ELSE LET shorter == SeqsUpTo(S, n - 1)
         IN  shorter \cup {Append(q, x) : q \in {r \in shorter : Len(r) = n - 1}, x \in S}

PipeIdle ==
    /\ pc = "idle"
    /\ walked = <<>>
    /\ openapi = <<>>
    /\ schema = EmptyMap
    /\ consolidated = <<>>
    /\ rawFile = "absent"
    /\ outFile = "absent"

(***************************************************************************)
(* normalizeEntityName exercised alone                                     *)
(***************************************************************************)

NameStems == {<<>>, sUser, sCreateUser, sClass, <<"V">>}

RawNames ==
    { p \o st \o su \o pl :
        p \in {<<>>} \cup SeqToSet(prefixes), st \in NameStems,
        su \in {<<>>} \cup SeqToSet(suffixes), pl \in {<<>>, <<"s">>} }

InitNormalize ==
    /\ PipeIdle
    /\ fnPc = "call"
    /\ fnIn \in RawNames
    /\ fnOut = <<>>

CallNormalize ==
    /\ fnPc = "call"
    /\ fnOut' = <<normalizeEntityName(fnIn)>>
    /\ fnPc' = "ret"
    /\ UNCHANGED <<fnIn, pipeVars>>

SpecNormalize == InitNormalize /\ [][CallNormalize]_vars

\* name starts with none of the prefixes and ends with none of the suffixes
NoAffix(name) ==
    /\ \A i \in 1..Len(prefixes) : ~HasPrefix(name, prefixes[i])
    /\ \A i \in 1..Len(suffixes) : ~HasSuffix(name, suffixes[i])

\* C5 (as stated): normalizeEntityName returns a non-empty string for every
\* input, the empty string included.
C5_NeverEmpty == fnPc = "ret" => fnOut[1] # <<>>

\* C5 (amended): normalizeEntityName returns a non-empty string for every
\* non-empty input (when stripping removes everything the raw name comes back);
\* for the empty string it returns the empty string.
C5_NonEmptyForNonEmptyInput == fnPc = "ret" => (fnOut[1] = <<>> <=> fnIn = <<>>)

\* a name that stripping removes entirely has been normalized
C5_Witness == fnPc = "ret" /\ fnIn = sReq /\ fnOut = <<sReq>>

\* C6 (as stated): a raw name that starts with none of the prefixes and ends
\* with none of the suffixes is returned unchanged.
C6_Unchanged == (fnPc = "ret" /\ NoAffix(fnIn)) => fnOut[1] = fnIn

\* C6 (amended): a raw name that starts with none of the prefixes and ends with
\* none of the suffixes is returned with one trailing "s" removed (unchanged
\* when it does not end in "s", or when it is just "s").
C6_OnlyPluralRemoved ==
    (fnPc = "ret" /\ NoAffix(fnIn)) =>
        fnOut[1] = (IF TrimSuffix(fnIn, <<"s">>) = <<>> THEN fnIn
                    ELSE TrimSuffix(fnIn, <<"s">>))

\* a name without prefix or suffix, ending in "s", has been normalized
C6_Witness ==
    /\ fnPc = "ret"
    /\ fnIn = sUser \o <<"s">>
    /\ NoAffix(fnIn)
    /\ fnOut = <<sUser>>

(***************************************************************************)
(* putSchema exercised alone: a sequence of calls on one accumulator       *)
(***************************************************************************)

MaxPuts == 4

PutTables ==
    { Table(sUser, "go:do", <<Column(sName, <<>>, sstring, "", <<>>, FALSE, "go:do")>>, <<>>, <<>>),
      Table(sUser, "openapi", <<Column(sname, sname, sstring, "", <<>>, FALSE, "openapi")>>, <<>>, <<>>),
      Table(sUser2, "go:api", <<Column(sName, <<>>, sstring, "", <<>>, FALSE, "go:api")>>, <<>>, <<>>),
      Table(sUser3, "go:api", <<Column(sName, <<>>, sint, "", <<>>, FALSE, "go:api")>>, <<>>, <<>>),
      Table(sOrder, "go:do", <<Column(sid, <<>>, sint, "", <<>>, FALSE, "go:do")>>, <<>>, <<>>) }

\* fnIn is the sequence of records passed to putSchema so far
InitPut ==
    /\ PipeIdle
    /\ fnPc = "call"
    /\ fnIn = <<>>
    /\ fnOut = <<>>

CallPutSchema ==
    /\ fnPc = "call"
    /\ Len(fnIn) < MaxPuts
    /\ \E t \in PutTables :
         /\ schema' = putSchema(schema, t)
         /\ fnIn' = Append(fnIn, t)
    /\ UNCHANGED <<pc, walked, openapi, consolidated, rawFile, outFile, fnPc, fnOut>>

SpecPut == InitPut /\ [][CallPutSchema]_vars

\* C4: each putSchema call adds exactly one new key, bound to the record passed,
\* and leaves every existing binding as it was; after n calls the accumulator
\* holds n records.
C4_PutAddsOneKey ==
    /\ [](Cardinality(DOMAIN schema) = Len(fnIn))
    /\ [][ fnIn' # fnIn =>
             /\ \E k \in (DOMAIN schema') \ (DOMAIN schema) :
                  /\ DOMAIN schema' = (DOMAIN schema) \cup {k}
                  /\ schema'[k] = fnIn'[Len(fnIn')]
             /\ \A j \in DOMAIN schema : schema'[j] = schema[j] ]_vars

\* a record named User__2 met the generated key User__2 and was stored as User__2__2
C4_Witness ==
    /\ Len(fnIn) = 3
    /\ fnIn[1].StructName = sUser /\ fnIn[2].StructName = sUser
    /\ fnIn[3].StructName = sUser2
    /\ DOMAIN schema = {sUser, sUser2, SuffixedKey(sUser2, 2)}

(***************************************************************************)
(* mergeConstraints exercised alone: the constraint sets of the columns    *)
(* that are merged into one column, in merge order.  mergeColumn merges    *)
(* the incoming set into the column's current one.                         *)
(***************************************************************************)

MaxConstraintSets == 3

\* nil, and non-default constraint sets as openAPIConstraintsForSchema builds them
ConstraintPtrs ==
    { <<>>,
      <<Constraint(FALSE, FALSE, <<3>>, <<>>, <<>>, <<>>, "")>>,
      <<Constraint(FALSE, FALSE, <<5>>, <<10>>, <<>>, <<>>, "")>>,
      <<Constraint(FALSE, FALSE, <<>>, <<7>>, <<>>, <<>>, "")>>,
      <<Constraint(TRUE, FALSE, <<>>, <<>>, <<0 - 2>>, <<9>>, "")>>,
      <<Constraint(FALSE, TRUE, <<>>, <<>>, <<1>>, <<>>, "")>>,
      <<Constraint(FALSE, FALSE, <<>>, <<>>, <<>>, <<4>>, "int64")>>,
      <<Constraint(FALSE, FALSE, <<>>, <<>>, <<>>, <<>>, "email")>> }

\* fnIn: the sequence of constraint pointers; fnOut: how many of them have been
\* merged and the column's current pointer
InitConstraints ==
    /\ PipeIdle
    /\ fnPc = "call"
    /\ fnIn \in SeqsUpTo(ConstraintPtrs, MaxConstraintSets) \ {<<>>}
    /\ fnOut = [n |-> 1, acc |-> fnIn[1]]

CallMergeConstraints ==
    /\ fnPc = "call"
    /\ fnOut.n < Len(fnIn)
    /\ fnOut' = [n |-> fnOut.n + 1, acc |-> mergeConstraints(fnOut.acc, fnIn[fnOut.n + 1])]
    /\ UNCHANGED <<fnPc, fnIn, pipeVars>>

SpecConstraints == InitConstraints /\ [][CallMergeConstraints]_vars

RECURSIVE foldConstraints(_, _)
foldConstraints(acc, rest) ==
    IF rest = <<>> THEN acc ELSE foldConstraints(mergeConstraints(acc, Head(rest)), Tail(rest))

\* the fields of a constraint pointer, nil reading as the all-default set
ConstraintFields(p) ==
    IF p = <<>> THEN Constraint(FALSE, FALSE, <<>>, <<>>, <<>>, <<>>, "") ELSE p[1]

\* the six fields the narrowing rule speaks of
Narrowed(p) ==
    LET c == ConstraintFields(p)
    IN  <<c.Required, c.Nullable, c.MinLength, c.MaxLength, c.Minimum, c.Maximum>>

MaxOf(S) == CHOOSE x \in S : \A y \in S : y <= x
MinOf(S) == CHOOSE x \in S : \A y \in S : x <= y

\* the values of an optional bound that are present in ps[1..n]
Present(ps, n, field) ==
    {ConstraintFields(ps[i])[field][1] : i \in {j \in 1..n : ConstraintFields(ps[j])[field] # <<>>}}

LargestPresent(ps, n, field) ==
    IF Present(ps, n, field) = {} THEN <<>> ELSE <<MaxOf(Present(ps, n, field))>>
SmallestPresent(ps, n, field) ==
    IF Present(ps, n, field) = {} THEN <<>> ELSE <<MinOf(Present(ps, n, field))>>

\* C9: after any number of merges MinLength and Minimum are the largest values
\* present, MaxLength and Maximum the smallest, Required and Nullable the OR of
\* the inputs; merging the same sets in any other order gives the same six fields.
C9_ConstraintNarrowing ==
    LET c == ConstraintFields(fnOut.acc)
        n == fnOut.n
    IN  /\ c.MinLength = LargestPresent(fnIn, n, "MinLength")
        /\ c.Minimum = LargestPresent(fnIn, n, "Minimum")
        /\ c.MaxLength = SmallestPresent(fnIn, n, "MaxLength")
        /\ c.Maximum = SmallestPresent(fnIn, n, "Maximum")
        /\ c.Required = (\E i \in 1..n : ConstraintFields(fnIn[i]).Required)
        /\ c.Nullable = (\E i \in 1..n : ConstraintFields(fnIn[i]).Nullable)
        /\ (n = Len(fnIn) =>
              \A p \in Perms(1..n) :
                 LET q == [i \in 1..n |-> fnIn[p[i]]]
                 IN  Narrowed(foldConstraints(q[1], Tail(q))) = Narrowed(fnOut.acc))

\* {minLength 3}, then {minLength 5, maxLength 10}, then {maxLength 7} have been merged
C9_Witness ==
    /\ fnOut.n = 3
    /\ ConstraintFields(fnIn[1]).MinLength = <<3>>
    /\ ConstraintFields(fnIn[2]).MinLength = <<5>>
    /\ ConstraintFields(fnIn[2]).MaxLength = <<10>>
    /\ ConstraintFields(fnIn[3]).MaxLength = <<7>>
    /\ fnOut.acc # <<>>
    /\ fnOut.acc[1].MinLength = <<5>>
    /\ fnOut.acc[1].MaxLength = <<7>>

(***************************************************************************)
(* mergeTableMetadata exercised alone: mergeTableMetadata(clone(dst), src) *)
(***************************************************************************)

MaxMergeCols == 2

colNameGo == Column(sName, <<>>, sstring, "", <<>>, FALSE, "go:do")
colNameApi ==
    Column(sname, sname, sstring, "user name",
           <<Constraint(TRUE, FALSE, <<3>>, <<>>, <<>>, <<>>, "")>>, FALSE, "openapi")
colRoleIDsGo == Column(sRoleIDs, <<>>, sint, "", <<>>, TRUE, "go:do")
colRoleIdsApi == Column(sroleIds, sroleIds, sArrInt, "role ids", <<>>, TRUE, "openapi")
colRoleIdsSnake == Column(sRoleIDs, srole_ids, sUnknown, "roles", <<>>, FALSE, "go:api")
colBlankGo == Column(sBlank, <<>>, sint, "", <<>>, FALSE, "go:do")

relDetail == Relation(sDetail, sUserDetail, FALSE, suid, sid, "detail")
relDetailLower == Relation(sdetail, sUserDetail, FALSE, suid, sid, "the same, lower case")

opCreateUser == Operation(sPOST, sPathUsers, sCreateUserOp, sUserCreateReq, <<>>)
opListUsers == Operation(sGET, sPathUsers, sListUsersOp, <<>>, sUser)

MergeColumnPool == {colNameGo, colNameApi, colRoleIDsGo, colRoleIdsSnake, colBlankGo}

MergeTables ==
    { Table(sUser, "go:do", cols, rels, ops) :
        cols \in SeqsUpTo(MergeColumnPool, MaxMergeCols),
        rels \in {<<>>, <<relDetail>>, <<relDetail, relDetailLower>>},
        ops \in {<<>>, <<opListUsers, opCreateUser>>} }

MergeSources ==
    { Table(sUser, "openapi", <<colNameApi, colRoleIdsApi>>, <<>>, <<opCreateUser>>),
      Table(sUserCreateReq, "openapi", <<colNameApi>>, <<>>, <<opCreateUser, opListUsers>>),
      Table(sUser, "go:api", <<colRoleIdsSnake, colBlankGo>>, <<relDetailLower>>, <<>>) }

InitMerge ==
    /\ PipeIdle
    /\ fnPc = "call"
    /\ fnIn \in {[dst |-> a, src |-> b] : a \in MergeTables, b \in MergeSources}
                \cup {[dst |-> a, src |-> a] : a \in MergeTables}
    /\ fnOut = <<>>

CallMerge ==
    /\ fnPc = "call"
    /\ fnOut' = <<mergeTableMetadata(cloneTableMetadata(fnIn.dst), fnIn.src)>>
    /\ fnPc' = "ret"
    /\ UNCHANGED <<fnIn, pipeVars>>

SpecMerge == InitMerge /\ [][CallMerge]_vars

columnKeys(cols) == [i \in 1..Len(cols) |-> columnKey(cols[i])]
relationKeys(rels) == [i \in 1..Len(rels) |-> relationKey(rels[i])]
operationKeys(ops) == [i \in 1..Len(ops) |-> operationKey(ops[i])]

\* C10: merging a record with a copy of itself yields as many columns,
\* relations and operations as the record has, with the same identities in the
\* same places: nothing is added or duplicated.
C10_MergeSelf ==
    (fnPc = "ret" /\ fnIn.src = fnIn.dst) =>
        LET a == fnIn.dst
            m == fnOut[1]
        IN  /\ Len(m.Columns) = Len(a.Columns)
            /\ Len(m.Relations) = Len(a.Relations)
            /\ Len(m.Operations) = Len(a.Operations)
            /\ columnKeys(m.Columns) = columnKeys(a.Columns)
            /\ relationKeys(m.Relations) = relationKeys(a.Relations)
            /\ operationKeys(m.Operations) = operationKeys(a.Operations)

\* a record with two columns, a relation and two operations was merged with itself
C10_Witness ==
    /\ fnPc = "ret"
    /\ fnIn.src = fnIn.dst
    /\ fnIn.dst.Columns = <<colNameGo, colRoleIDsGo>>
    /\ fnIn.dst.Relations = <<relDetail>>
    /\ Len(fnIn.dst.Operations) = 2
    /\ Len(fnOut[1].Columns) = 2

\* the positions of the relations of rels whose identity is k
RelationsKeyed(rels, k) == {i \in 1..Len(rels) : relationKey(rels[i]) = k}

sRefPrefix == <<"#", "/", "c", "o", "m", "p", "o", "n", "e", "n", "t", "s", "/", "s", "c", "h", "e", "m", "a", "s", "/">>
sApplicationJSON == <<"a", "p", "p", "l", "i", "c", "a", "t", "i", "o", "n", "/", "j", "s", "o", "n">>
sApplicationLdJSON == <<"a", "p", "p", "l", "i", "c", "a", "t", "i", "o", "n", "/", "l", "d", "+", "j", "s", "o", "n">>
sDefault == <<"d", "e", "f", "a", "u", "l", "t">>
sSuccessCodes == << <<"2", "0", "0">>, <<"2", "0", "1">>, <<"2", "0", "2">>, <<"2", "0", "4">> >>

\* strings.LastIndex(s, c) for a one-character c, 0 when absent (Go: -1)
LastIndexOf(s, c) ==
    IF \E i \in 1..Len(s) : s[i] = c
    THEN CHOOSE i \in 1..Len(s) : s[i] = c /\ \A j \in (i + 1)..Len(s) : s[j] # c
    ELSE 0

openAPIRefName(ref) ==
    IF HasPrefix(ref, sRefPrefix) THEN TrimPrefix(ref, sRefPrefix)
    ELSE IF LastIndexOf(ref, "/") # 0 THEN SubSeq(ref, LastIndexOf(ref, "/") + 1, Len(ref))
    ELSE <<>>

\* spec.Components.Schemas[name]: a pointer, nil when the name is not a key
schemaNamed(spec, name) ==
    IF name \in DOMAIN spec.Schemas THEN <<spec.Schemas[name]>> ELSE <<>>

\* for k, v := range s.Properties { props[k] = v }
setProperties(props, added) ==
    [k \in (DOMAIN props) \cup (DOMAIN added) |->
        IF k \in DOMAIN added THEN added[k] ELSE props[k]]

\* st is [visited, props, required], the three maps the recursion fills in;
\* s is a schema pointer
RECURSIVE collectOpenAPIObject(_, _, _)
RECURSIVE collectAllOf(_, _, _)
collectOpenAPIObject(spec, s, st) ==
    IF s = <<>> THEN st
    ELSE IF s[1].Ref # <<>>
    THEN LET name == openAPIRefName(s[1].Ref)
         IN  IF name = <<>> \/ name \in st.visited THEN st
             ELSE collectOpenAPIObject(spec, schemaNamed(spec, name),
                                       [st EXCEPT !.visited = @ \cup {name}])
    ELSE LET st1 == [st EXCEPT !.required = @ \cup SeqToSet(s[1].Required)]
             st2 == collectAllOf(spec, s[1].AllOf, st1)
             st3 == IF Len(s[1].OneOf) > 0
                    THEN collectOpenAPIObject(spec, <<s[1].OneOf[1]>>, st2) ELSE st2
             st4 == IF Len(s[1].AnyOf) > 0
                    THEN collectOpenAPIObject(spec, <<s[1].AnyOf[1]>>, st3) ELSE st3
         IN  [st4 EXCEPT !.props = setProperties(@, s[1].Properties)]

collectAllOf(spec, subs, st) ==
    IF subs = <<>> THEN st
    ELSE collectAllOf(spec, Tail(subs), collectOpenAPIObject(spec, <<Head(subs)>>, st))

\* [typeName, isArray, refName] of a schema pointer
RECURSIVE openAPITypeName(_, _)
openAPITypeName(spec, s) ==
    IF s = <<>> THEN [typeName |-> sUnknown, isArray |-> FALSE, refName |-> <<>>]
    ELSE IF s[1].Ref # <<>>
    THEN LET refName == openAPIRefName(s[1].Ref)
         IN  IF refName = <<>>
             THEN [typeName |-> sUnknown, isArray |-> FALSE, refName |-> <<>>]
             ELSE [typeName |-> refName, isArray |-> FALSE, refName |-> refName]
    ELSE CASE s[1].Type = "array" ->
                LET item == openAPITypeName(spec, s[1].Items)
                IN  [typeName |-> <<"[", "]">> \o item.typeName, isArray |-> TRUE,
                     refName |-> item.refName]
           [] s[1].Type = "object" ->
                [typeName |-> <<"o", "b", "j", "e", "c", "t">>, isArray |-> FALSE, refName |-> <<>>]
           [] s[1].Type = "string" ->
                [typeName |-> <<"s", "t", "r", "i", "n", "g">>, isArray |-> FALSE, refName |-> <<>>]
           [] s[1].Type = "integer" ->
                [typeName |-> IF s[1].Format = "int64" THEN <<"i", "n", "t", "6", "4">> ELSE <<"i", "n", "t">>,
                 isArray |-> FALSE, refName |-> <<>>]
           [] s[1].Type = "number" ->
                [typeName |-> IF s[1].Format = "float" THEN <<"f", "l", "o", "a", "t", "3", "2">> ELSE <<"f", "l", "o", "a", "t", "6", "4">>,
                 isArray |-> FALSE, refName |-> <<>>]
           [] s[1].Type = "boolean" ->
                [typeName |-> <<"b", "o", "o", "l">>, isArray |-> FALSE, refName |-> <<>>]
           [] OTHER ->
                [typeName |-> IF Len(s[1].AllOf) > 0 THEN <<"o", "b", "j", "e", "c", "t">> ELSE sUnknown,
                 isArray |-> FALSE, refName |-> <<>>]

\* the mutant: the constraint set is returned as built, all-default or not
openAPIConstraintsForSchema_NoCollapse(s) ==
    IF s = <<>> THEN <<>>
    ELSE << [ Required |-> FALSE, Nullable |-> s[1].Nullable,
              MinLength |-> s[1].MinLength, MaxLength |-> s[1].MaxLength,
              Minimum |-> s[1].Minimum, Maximum |-> s[1].Maximum,
              Pattern |-> s[1].Pattern, Format |-> s[1].Format,
              Enum |-> s[1].Enum ] >>

\* a constraint pointer for a schema pointer
openAPIConstraintsForSchema(s) ==
    IF s = <<>> THEN <<>>
    ELSE LET c == [ Required |-> FALSE, Nullable |-> s[1].Nullable,
                    MinLength |-> s[1].MinLength, MaxLength |-> s[1].MaxLength,
                    Minimum |-> s[1].Minimum, Maximum |-> s[1].Maximum,
                    Pattern |-> s[1].Pattern, Format |-> s[1].Format,
                    Enum |-> s[1].Enum ]
         IN  IF constraintsEmpty(c) THEN <<>> ELSE <<c>>

\* the column of one resolved property
openAPIColumn(spec, propName, ps, required) ==
    LET t == openAPITypeName(spec, <<ps>>)
        c == openAPIConstraintsForSchema(<<ps>>)
        c0 == IF c = <<>> THEN Constraint(FALSE, FALSE, <<>>, <<>>, <<>>, <<>>, "") ELSE c[1]
    IN  [ Name |-> propName, JSONName |-> propName, Type |-> t.typeName, Validation |-> "",
          Description |-> ps.Description, Additional |-> "",
          Constraints |-> IF required THEN <<[c0 EXCEPT !.Required = TRUE]>> ELSE c,
          Ref |-> t.refName, IsArray |-> t.isArray, Source |-> "openapi" ]

openAPISchemaToTableMetadata(spec, schemaName, sch) ==
    LET st == collectOpenAPIObject(spec, <<sch>>,
                  [visited |-> {}, props |-> EmptyMap, required |-> {}])
        keys == SortStrings(DOMAIN st.props)
    IN  [ StructName |-> schemaName,
          NormalizedName |-> normalizeEntityName(schemaName),
          Source |-> "openapi",
          Columns |-> [i \in 1..Len(keys) |->
                         openAPIColumn(spec, keys[i], st.props[keys[i]],
                                       keys[i] \in st.required)],
          Relations |-> <<>>,
          Operations |-> <<>> ]

openAPISchemaRefOrItemRef(s) ==
    IF s = <<>> THEN <<>>
    ELSE IF s[1].Ref # <<>> THEN openAPIRefName(s[1].Ref)
    ELSE IF s[1].Type = "array" /\ s[1].Items # <<>> /\ s[1].Items[1].Ref # <<>>
         THEN openAPIRefName(s[1].Items[1].Ref)
    ELSE <<>>

\* content maps a media type to a media-type record [Schema: pointer]; a key
\* bound to a null media type or response is not part of the modelled documents
pickJSONMediaSchema(content) ==
    IF DOMAIN content = {} THEN <<>>
    ELSE IF sApplicationJSON \in DOMAIN content THEN content[sApplicationJSON].Schema
    ELSE IF sApplicationLdJSON \in DOMAIN content THEN content[sApplicationLdJSON].Schema
    ELSE content[SortStrings(DOMAIN content)[1]].Schema

\* rb is a request-body pointer
pickOpenAPISchemaRefName(rb) ==
    IF rb = <<>> \/ DOMAIN rb[1].Content = {} THEN <<>>
    ELSE openAPISchemaRefOrItemRef(pickJSONMediaSchema(rb[1].Content))

\* the first of 200, 201, 202, 204 that is a key of resps, <<>> when none is
RECURSIVE firstCodeIn(_, _)
firstCodeIn(codes, resps) ==
    IF codes = <<>> THEN <<>>
    ELSE IF Head(codes) \in DOMAIN resps THEN <<Head(codes)>>
    ELSE firstCodeIn(Tail(codes), resps)

\* the mutant: the response with the smallest code, whatever the codes are
pickOpenAPIResponseSchemaRefName_Smallest(resps) ==
    IF DOMAIN resps = {} THEN <<>>
    ELSE openAPISchemaRefOrItemRef(
             pickJSONMediaSchema(resps[SortStrings(DOMAIN resps)[1]].Content))

\* resps maps a status code to a response record [Content]
pickOpenAPIResponseSchemaRefName(resps) ==
    IF DOMAIN resps = {} THEN <<>>
    ELSE LET success == firstCodeIn(sSuccessCodes, resps)
             code == IF success # <<>> THEN success[1]
                     ELSE IF sDefault \in DOMAIN resps THEN sDefault
                     ELSE SortStrings(DOMAIN resps)[1]
         IN  openAPISchemaRefOrItemRef(pickJSONMediaSchema(resps[code].Content))

openAPIOperationInfo(spec, path, method, op) ==
    [ Method |-> method, Path |-> path, OperationID |-> op.OperationID,
      Summary |-> op.Summary, Tags |-> op.Tags,
      RequestSchema |-> pickOpenAPISchemaRefName(op.RequestBody),
      ResponseSchema |-> pickOpenAPIResponseSchemaRefName(op.Responses),
      Source |-> "openapi" ]

entityFromPathHeuristic(p) ==
    LET trim == Trim(p, "/")
        split == Split(trim, "/")
        parts == IF split[1] = <<"a", "p", "i">> \/ HasPrefix(split[1], <<"v">>) THEN Tail(split) ELSE split
        end == parts[Len(parts)]
        last == IF HasPrefix(end, <<"{">>) /\ Len(parts) > 1 THEN parts[Len(parts) - 1] ELSE end
        stem == TrimSuffix(TrimSpace(last), <<"s">>)
    IN  IF trim = <<>> THEN <<>>
        ELSE IF parts = <<>> THEN <<>>
        ELSE IF stem = <<>> THEN <<>>
        ELSE <<UpperChar(stem[1])>> \o Tail(stem)

\* the mutant: the request and response schema names are not consulted
inferEntityNameForOperation_TagOrPath(oi) ==
    IF Len(oi.Tags) > 0 /\ oi.Tags[1] # <<>> THEN oi.Tags[1]
    ELSE entityFromPathHeuristic(oi.Path)

\* the mutant: the response schema name is consulted before the request's
inferEntityNameForOperation_ResponseFirst(oi) ==
    IF oi.ResponseSchema # <<>> THEN oi.ResponseSchema
    ELSE IF oi.RequestSchema # <<>> THEN oi.RequestSchema
    ELSE IF Len(oi.Tags) > 0 /\ oi.Tags[1] # <<>> THEN oi.Tags[1]
    ELSE entityFromPathHeuristic(oi.Path)

inferEntityNameForOperation(oi) ==
    IF oi.RequestSchema # <<>> THEN oi.RequestSchema
    ELSE IF oi.ResponseSchema # <<>> THEN oi.ResponseSchema
    ELSE IF Len(oi.Tags) > 0 /\ oi.Tags[1] # <<>> THEN oi.Tags[1]
    ELSE entityFromPathHeuristic(oi.Path)

\* The operations of the document, grouped by normalized entity name.  order is
\* the sequence of <<path, method>> pairs in which the nested range over
\* spec.Paths visits them.
RECURSIVE openAPIOpsByNorm(_, _, _)
openAPIOpsByNorm(spec, order, opsByNorm) ==
    IF order = <<>> THEN opsByNorm
    ELSE LET p == Head(order)[1]
             method == Head(order)[2]
             op == spec.Paths[p][method]
             oi == openAPIOperationInfo(spec, p, ToUpper(method), op[1])
             norm == normalizeEntityName(inferEntityNameForOperation(oi))
         IN  IF op = <<>> \/ norm = <<>> THEN openAPIOpsByNorm(spec, Tail(order), opsByNorm)
             ELSE openAPIOpsByNorm(spec, Tail(order),
                    [k \in (DOMAIN opsByNorm) \cup {norm} |->
                        IF k = norm
                        THEN (IF norm \in DOMAIN opsByNorm THEN opsByNorm[norm] ELSE <<>>)
                             \o <<oi>>
                        ELSE opsByNorm[k]])

\* for schemaName, schema := range spec.Components.Schemas { putSchema(out, meta) }
RECURSIVE openAPIPutSchemas(_, _, _)
openAPIPutSchemas(spec, names, out) ==
    IF names = <<>> THEN out
    ELSE openAPIPutSchemas(spec, Tail(names),
            putSchema(out, openAPISchemaToTableMetadata(spec, Head(names),
                                                        spec.Schemas[Head(names)])))

\* the mutant: the operations are collected but never attached to the records
parseOpenAPIFile_NoOperations(spec, opOrder) ==
    openAPIPutSchemas(spec, SortStrings(DOMAIN spec.Schemas), EmptyMap)

\* The SchemaMap built from a document that was read and unmarshalled.  The
\* schema names are distinct map keys, so putSchema stores each record under
\* its name whatever the order of the range: it is taken in sorted order.
parseOpenAPIFile(spec, opOrder) ==
    LET out == openAPIPutSchemas(spec, SortStrings(DOMAIN spec.Schemas), EmptyMap)
        opsByNorm == openAPIOpsByNorm(spec, opOrder, EmptyMap)
    IN  [k \in DOMAIN out |->
            IF out[k].NormalizedName \in DOMAIN opsByNorm
            THEN [out[k] EXCEPT !.Operations = @ \o opsByNorm[out[k].NormalizedName]]
            ELSE out[k]]

\* the orders in which the nested range visits the <<path, method>> pairs:
\* the paths in any order, the methods of one path together, in any order
RECURSIVE methodVisits(_, _)
methodVisits(spec, paths) ==
    IF paths = <<>> THEN {<<>>}
    ELSE { [i \in 1..Len(ms) |-> <<Head(paths), ms[i]>>] \o rest :
             ms \in Perms(DOMAIN spec.Paths[Head(paths)]),
             rest \in methodVisits(spec, Tail(paths)) }

OperationVisitOrders(spec) ==
    UNION { methodVisits(spec, paths) : paths \in Perms(DOMAIN spec.Paths) }

\* for _, meta := range openapiSchema { putSchema(schema, meta) }
RECURSIVE putAll(_, _, _)
putAll(m, from, order) ==
    IF order = <<>> THEN m ELSE putAll(putSchema(m, from[Head(order)]), from, Tail(order))

(***************************************************************************)
(* Source-structure extraction.                                            *)
(* A file is [Path, Parses, Decls]; a type declaration [Name, IsStruct,    *)
(* Fields]; a field [Names, Type, Tag], Tag being a pointer to the values  *)
(* reflect.StructTag.Get returns for orm, v, dc, ad and json (nil when the *)
(* field has no tag or the tag does not unquote); a type expression        *)
(* [kind, name, pkg, elt] with kind Star, Array, Ident, Selector or Other. *)
(***************************************************************************)

sWith == <<"w", "i", "t", "h", ":">>
sDotGo == <<".", "g", "o">>
sModelDo == <<"/", "m", "o", "d", "e", "l", "/", "d", "o">>
sApi == <<"/", "a", "p", "i">>

\* strings.Contains
Contains(s, sub) ==
    \E i \in 1..(Len(s) - Len(sub) + 1) : SubSeq(s, i, i + Len(sub) - 1) = sub

sourceFromPath(path) ==
    IF Contains(path, sModelDo) THEN "go:do"
    ELSE IF Contains(path, sApi) THEN "go:api"
    ELSE "go"

parseJSONTag(tag) ==
    IF tag = <<>> THEN <<>>
    ELSE IF tag = <<"-">> THEN <<>>
    ELSE IF IndexOf(tag, ",") # 0 THEN SubSeq(tag, 1, IndexOf(tag, ",") - 1)
    ELSE tag

RECURSIVE resolveTypeInfoLoop(_, _)
resolveTypeInfoLoop(expr, isCollection) ==
    CASE expr.kind = "Star" -> resolveTypeInfoLoop(expr.elt[1], isCollection)
      [] expr.kind = "Array" -> resolveTypeInfoLoop(expr.elt[1], TRUE)
      [] expr.kind = "Ident" -> [name |-> expr.name, isCollection |-> isCollection]
      [] expr.kind = "Selector" ->
           [name |-> IF expr.pkg # <<>> THEN expr.pkg[1] \o <<".">> \o expr.name
                     ELSE expr.name,
            isCollection |-> isCollection]
      [] OTHER -> [name |-> sUnknown, isCollection |-> isCollection]

resolveTypeInfo(expr) == resolveTypeInfoLoop(expr, FALSE)

\* the text after "with:" of the first comma-separated part that starts with
\* "with:" once trimmed; <<>> when there is none
RECURSIVE withPartOf(_)
withPartOf(parts) ==
    IF parts = <<>> THEN <<>>
    ELSE IF HasPrefix(TrimSpace(Head(parts)), sWith)
         THEN TrimPrefix(TrimSpace(Head(parts)), sWith)
         ELSE withPartOf(Tail(parts))

\* a RelationNode pointer with the two keys set
parseWithTag(tag) ==
    LET withPart == withPartOf(Split(tag, ","))
        eq == IndexOf(withPart, "=")
    IN  IF withPart = <<>> THEN <<>>
        ELSE << Relation(<<>>, <<>>, FALSE,
                         TrimSpace(IF eq = 0 THEN withPart ELSE SubSeq(withPart, 1, eq - 1)),
                         IF eq = 0 THEN sid
                         ELSE TrimSpace(SubSeq(withPart, eq + 1, Len(withPart))),
                         "") >>

\* the relation a field becomes, <<>> when it is not a relation
fieldRelation(field) ==
    LET t == resolveTypeInfo(field.Type)
        rel == IF field.Tag # <<>> /\ Contains(field.Tag[1].orm, sWith)
               THEN parseWithTag(field.Tag[1].orm) ELSE <<>>
    IN  IF rel = <<>> THEN <<>>
        ELSE << [rel[1] EXCEPT
                   !.FieldName = IF Len(field.Names) > 0 THEN field.Names[1] ELSE <<>>,
                   !.TargetStruct = t.name,
                   !.IsCollection = t.isCollection,
                   !.Validation = field.Tag[1].v,
                   !.Description = field.Tag[1].dc] >>

\* the column a field that is not a relation becomes, <<>> for an embedded field
fieldColumn(field, fileSource) ==
    LET t == resolveTypeInfo(field.Type)
        tagged == field.Tag # <<>>
    IN  IF Len(field.Names) = 0 THEN <<>>
        ELSE << [ Name |-> field.Names[1],
                  JSONName |-> IF tagged THEN parseJSONTag(field.Tag[1].json) ELSE <<>>,
                  Type |-> t.name,
                  Validation |-> IF tagged THEN field.Tag[1].v ELSE "",
                  Description |-> IF tagged THEN field.Tag[1].dc ELSE "",
                  Additional |-> IF tagged THEN field.Tag[1].ad ELSE "",
                  Constraints |-> <<>>,
                  Ref |-> <<>>,
                  IsArray |-> t.isCollection,
                  Source |-> fileSource ] >>

\* the loop over structType.Fields.List
RECURSIVE structTable(_, _, _)
structTable(fields, fileSource, table) ==
    IF fields = <<>> THEN table
    ELSE LET rel == fieldRelation(Head(fields))
         IN  IF rel # <<>>
             THEN structTable(Tail(fields), fileSource,
                              [table EXCEPT !.Relations = @ \o rel])
             ELSE structTable(Tail(fields), fileSource,
                              [table EXCEPT !.Columns = @ \o fieldColumn(Head(fields), fileSource)])

\* ast.Inspect: the type specs of the file, in source order
RECURSIVE parseDecls(_, _, _)
parseDecls(decls, fileSource, m) ==
    IF decls = <<>> THEN m
    ELSE LET d == Head(decls)
             table == structTable(d.Fields, fileSource,
                                  Table(d.Name, fileSource, <<>>, <<>>, <<>>))
         IN  IF d.IsStruct /\ (Len(table.Columns) > 0 \/ Len(table.Relations) > 0)
             THEN parseDecls(Tail(decls), fileSource, putSchema(m, table))
             ELSE parseDecls(Tail(decls), fileSource, m)

\* the mutant: a file that fails to parse empties the accumulator
parseFile_ResetOnError(file, m) ==
    IF ~file.Parses THEN EmptyMap ELSE parseDecls(file.Decls, sourceFromPath(file.Path), m)

parseFile(file, m) ==
    IF ~file.Parses THEN m ELSE parseDecls(file.Decls, sourceFromPath(file.Path), m)

\* the callback of filepath.Walk for a path that was read without error
walkFile(file, m) ==
    IF file.IsDir \/ ~HasSuffix(file.Path, sDotGo) THEN m
    ELSE IF ~Contains(file.Path, sModelDo) /\ ~Contains(file.Path, sApi) THEN m
    ELSE parseFile(file, m)

(***************************************************************************)
(* parseWithTag exercised alone: one call on the value of an orm tag         *)
(***************************************************************************)

sTableUser == <<"t", "a", "b", "l", "e", ":", "u", "s", "e", "r">>
suser_id == <<"u", "s", "e", "r", "_", "i", "d">>

\* orm tag values: segments before the with segment, blanks around the keys,
\* the source side absent, empty, blank or present
WithSegments ==
    { lead \o sWith \o sp1 \o target \o sp2 \o rest :
        lead \in {<<>>, sTableUser \o <<",">>, sTableUser \o <<",", " ">>},
        sp1 \in {<<>>, <<" ">>},
        target \in {suid, suser_id},
        sp2 \in {<<>>, <<" ">>},
        rest \in {<<>>, <<"=">>, <<"=", " ">>, <<"=">> \o sid, <<"=", " ">> \o sid,
                  <<"=">> \o sid \o <<" ">>, <<"=">> \o suid \o <<"=">> \o sid} }

OrmTags == WithSegments \cup {<<>>, sTableUser, sWith, sTableUser \o <<",">> \o sWith}

InitWithTag ==
    /\ PipeIdle
    /\ fnPc = "call"
    /\ fnIn \in OrmTags
    /\ fnOut = <<>>

CallParseWithTag ==
    /\ fnPc = "call"
    /\ fnOut' = parseWithTag(fnIn)
    /\ fnPc' = "ret"
    /\ UNCHANGED <<fnIn, pipeVars>>

SpecWithTag == InitWithTag /\ [][CallParseWithTag]_vars

\* the text after "with:" in the first segment that starts with it
SubTagValue(tag) == withPartOf(Split(tag, ","))

\* C12: for every relation sub-tag value, TargetKey is the trimmed text left of
\* the first "=" and SourceKey the trimmed text right of it, SourceKey is "id"
\* whenever the source side is omitted, and no relation record has an empty
\* SourceKey.
C12_KeysTrimmedSourceNeverEmpty ==
    (fnPc = "ret" /\ fnOut # <<>>) =>
        LET v == SubTagValue(fnIn)
            eq == IndexOf(v, "=")
            left == IF eq = 0 THEN v ELSE SubSeq(v, 1, eq - 1)
            right == IF eq = 0 THEN <<>> ELSE SubSeq(v, eq + 1, Len(v))
        IN  /\ fnOut[1].TargetKey = TrimSpace(left)
            /\ fnOut[1].SourceKey = IF TrimSpace(right) = <<>> THEN sid ELSE TrimSpace(right)
            /\ fnOut[1].SourceKey # <<>>

(***************************************************************************)
(* Inputs of a run: the source files under the root and the OpenAPI        *)
(* documents                                                               *)
(***************************************************************************)

Ident(n) == [kind |-> "Ident", name |-> n, pkg |-> <<>>, elt |-> <<>>]
ArrayOf(e) == [kind |-> "Array", name |-> <<>>, pkg |-> <<>>, elt |-> <<e>>]
PointerTo(e) == [kind |-> "Star", name |-> <<>>, pkg |-> <<>>, elt |-> <<e>>]
Selector(pkg, n) == [kind |-> "Selector", name |-> n, pkg |-> <<pkg>>, elt |-> <<>>]
MapType == [kind |-> "Other", name |-> <<>>, pkg |-> <<>>, elt |-> <<>>]

Field(names, type, tag) == [Names |-> names, Type |-> type, Tag |-> tag]
Tag(orm, v, dc, json) == <<[orm |-> orm, v |-> v, dc |-> dc, ad |-> "", json |-> json]>>
Struct(name, fields) == [Name |-> name, IsStruct |-> TRUE, Fields |-> fields]
GoFile(path, decls) == [Path |-> path, IsDir |-> FALSE, Parses |-> TRUE, Decls |-> decls]

sId == <<"I", "d">>
sUid == <<"U", "i", "d">>
sMeta == <<"M", "e", "t", "a">>
sRoleIds == <<"R", "o", "l", "e", "I", "d", "s">>
sint64 == <<"i", "n", "t", "6", "4">>
sOrderList == <<"O", "r", "d", "e", "r", "L", "i", "s", "t">>
sOrderStatus == <<"O", "r", "d", "e", "r", "S", "t", "a", "t", "u", "s">>
sEmpty == <<"E", "m", "p", "t", "y">>
sentity == <<"e", "n", "t", "i", "t", "y">>

\* type User struct { Name string; RoleIDs []int }
fileUserDo ==
    GoFile(<<"i", "n", "t", "e", "r", "n", "a", "l", "/", "m", "o", "d", "e", "l", "/", "d", "o", "/", "u", "s", "e", "r", ".", "g", "o">>,
           << Struct(sUser, << Field(<<sName>>, Ident(sstring), <<>>),
                               Field(<<sRoleIDs>>, ArrayOf(Ident(sint)), <<>>) >>) >>)

\* type UserCreateReq struct {
\*     Name    string  `json:"name,omitempty" v:"required" dc:"Name"`
\*     RoleIds []int   `json:"role_ids"`
\*     RoleIDs []int64 `json:"roleIds" dc:"roles"` }
fileUserApi ==
    GoFile(<<"i", "n", "t", "e", "r", "n", "a", "l", "/", "a", "p", "i", "/", "u", "s", "e", "r", ".", "g", "o">>,
           << Struct(sUserCreateReq,
                     << Field(<<sName>>, Ident(sstring),
                              Tag(<<>>, "required", "Name", <<"n", "a", "m", "e", ",", "o", "m", "i", "t", "e", "m", "p", "t", "y">>)),
                        Field(<<sRoleIds>>, ArrayOf(Ident(sint)),
                              Tag(<<>>, "", "", srole_ids)),
                        Field(<<sRoleIDs>>, ArrayOf(Ident(sint64)),
                              Tag(<<>>, "", "roles", sroleIds)) >>) >>)

\* type User struct {
\*     Id     int
\*     Detail *UserDetail        `orm:"with:uid=id" dc:"detail"`
\*     detail *UserDetail        `orm:"cache, with: uid = id" dc:"the same, lower case"` }
\* type UserDetail struct { Uid int; Meta map[string]string; Owner *entity.User `orm:"with:id"` }
fileUserDetailDo ==
    GoFile(<<"i", "n", "t", "e", "r", "n", "a", "l", "/", "m", "o", "d", "e", "l", "/", "d", "o", "/", "u", "s", "e", "r", "_", "d", "e", "t", "a", "i", "l", ".", "g", "o">>,
           << Struct(sUser,
                     << Field(<<sId>>, Ident(sint), <<>>),
                        Field(<<sDetail>>, PointerTo(Ident(sUserDetail)),
                              Tag(<<"w", "i", "t", "h", ":", "u", "i", "d", "=", "i", "d">>, "", "detail", <<>>)),
                        Field(<<sdetail>>, PointerTo(Ident(sUserDetail)),
                              Tag(<<"c", "a", "c", "h", "e", ",", " ", "w", "i", "t", "h", ":", " ", "u", "i", "d", " ", "=", " ", "i", "d">>, "", "the same, lower case", <<>>)) >>),
              Struct(sUserDetail,
                     << Field(<<sUid>>, Ident(sint), <<>>),
                        Field(<<sMeta>>, MapType, <<>>),
                        Field(<<<<"O", "w", "n", "e", "r">>>>, PointerTo(Selector(sentity, sUser)),
                              Tag(<<"w", "i", "t", "h", ":", "i", "d">>, "", "", <<>>)) >>) >>)

\* a file that does not parse
fileBroken ==
    [Path |-> <<"i", "n", "t", "e", "r", "n", "a", "l", "/", "m", "o", "d", "e", "l", "/", "d", "o", "/", "b", "r", "o", "k", "e", "n", ".", "g", "o">>, IsDir |-> FALSE, Parses |-> FALSE,
     Decls |-> <<>>]

\* a file outside model/do and api
fileService ==
    GoFile(<<"i", "n", "t", "e", "r", "n", "a", "l", "/", "s", "e", "r", "v", "i", "c", "e", "/", "u", "s", "e", "r", ".", "g", "o">>,
           << Struct(sUser, << Field(<<sName>>, Ident(sstring), <<>>) >>) >>)

\* type OrderStatus int
\* type Empty struct{}
\* type OrderList struct { _ int; ID int64 `json:"id"`; Empty; Note string `json:"-"` }
fileOrderApi ==
    GoFile(<<"i", "n", "t", "e", "r", "n", "a", "l", "/", "a", "p", "i", "/", "o", "r", "d", "e", "r", ".", "g", "o">>,
           << [Name |-> sOrderStatus, IsStruct |-> FALSE, Fields |-> <<>>],
              Struct(sEmpty, <<>>),
              Struct(sOrderList,
                     << Field(<<sBlank>>, Ident(sint), <<>>),
                        Field(<<<<"I", "D">>>>, Ident(sint64), Tag(<<>>, "", "", sid)),
                        Field(<<>>, Ident(sEmpty), <<>>),
                        Field(<<<<"N", "o", "t", "e">>>>, Ident(sstring), Tag(<<>>, "", "", <<"-">>)) >>) >>)

GoFiles == {fileUserDo, fileUserApi, fileUserDetailDo, fileBroken, fileService, fileOrderApi}

EmptySchema ==
    [ Ref |-> <<>>, Type |-> "", Format |-> "", Description |-> "",
      Properties |-> EmptyMap, Items |-> <<>>, Required |-> <<>>, Enum |-> <<>>,
      Nullable |-> FALSE, MinLength |-> <<>>, MaxLength |-> <<>>, Minimum |-> <<>>,
      Maximum |-> <<>>, Pattern |-> "", AllOf |-> <<>>, OneOf |-> <<>>, AnyOf |-> <<>> ]

Primitive(t) == [EmptySchema EXCEPT !.Type = t]
RefTo(name) == [EmptySchema EXCEPT !.Ref = sRefPrefix \o name]
ArraySchema(item) == [EmptySchema EXCEPT !.Type = "array", !.Items = <<item>>]
ObjectSchema(props, required) ==
    [EmptySchema EXCEPT !.Type = "object", !.Properties = props, !.Required = required]

JSONContent(sch) == (sApplicationJSON :> [Schema |-> <<sch>>])
OpenAPIOp(id, requestBody, responses) ==
    <<[ OperationID |-> id, Summary |-> "", Tags |-> <<>>,
        RequestBody |-> requestBody, Responses |-> responses ]>>

spost == <<"p", "o", "s", "t">>
sget == <<"g", "e", "t">>
sPathSignup == <<"/", "s", "i", "g", "n", "u", "p">>

\* { name: string (minLength 3, required), roleIds: array<integer> }
schemaUser ==
    ObjectSchema((sname :> [Primitive("string") EXCEPT !.MinLength = <<3>>,
                                                        !.Description = "user name"])
                 @@ (sroleIds :> ArraySchema(Primitive("integer"))),
                 <<sname>>)

schemaNameOnly == ObjectSchema((sname :> [Primitive("string") EXCEPT !.MaxLength = <<30>>]), <<>>)

\* POST /signup with request UserCreateReq; GET /users answering 200 with an array of User
docUsers ==
    [ Valid |-> TRUE,
      Schemas |-> (sUser :> schemaUser) @@ (sUserCreateReq :> schemaNameOnly),
      Paths |-> (sPathSignup :>
                    (spost :> OpenAPIOp(sCreateUserOp,
                                        <<[Content |-> JSONContent(RefTo(sUserCreateReq))]>>,
                                        EmptyMap)))
                @@ (sPathUsers :>
                    (sget :> OpenAPIOp(sListUsersOp, <<>>,
                                       (<<"2", "0", "0">> :> [Content |->
                                                    JSONContent(ArraySchema(RefTo(sUser)))])))) ]

\* POST /users with request CreateUserReq
docCreateUserReq ==
    [ Valid |-> TRUE,
      Schemas |-> (sUser :> schemaUser) @@ (sCreateUserReq :> schemaNameOnly),
      Paths |-> (sPathUsers :>
                    (spost :> OpenAPIOp(sCreateUserOp,
                                        <<[Content |-> JSONContent(RefTo(sCreateUserReq))]>>,
                                        EmptyMap))) ]

\* POST /signup with request UserCreateReq, which is no component schema of
\* the document; "get": null under /users; a component schema whose name is ""
docOrders ==
    [ Valid |-> TRUE,
      Schemas |-> (sOrder :> ObjectSchema((sid :> [Primitive("integer") EXCEPT !.Format = "int64"]),
                                          <<sid>>))
                  @@ (<<>> :> schemaNameOnly),
      Paths |-> (sPathSignup :>
                    (spost :> OpenAPIOp(sCreateUserOp,
                                        <<[Content |-> JSONContent(RefTo(sUserCreateReq))]>>,
                                        EmptyMap)))
                @@ (sPathUsers :> (sget :> <<>>)) ]

\* a document that cannot be read or is not valid JSON
docInvalid == [Valid |-> FALSE, Schemas |-> EmptyMap, Paths |-> EmptyMap]

OpenAPIDocs == {docUsers, docCreateUserReq, docOrders, docInvalid}

(***************************************************************************)
(* main                                                                    *)
(***************************************************************************)

MaxFiles == 2

Init ==
    /\ pc = "walk"
    /\ walked = <<>>
    /\ openapi = <<>>
    /\ schema = EmptyMap
    /\ consolidated = <<>>
    /\ rawFile = "absent"
    /\ outFile = "absent"
    /\ fnPc = "idle"
    /\ fnIn = <<>>
    /\ fnOut = <<>>

\* filepath.Walk hands the next path to the callback, in lexical order
WalkFile ==
    /\ pc = "walk"
    /\ Len(walked) < MaxFiles
    /\ \E f \in GoFiles :
         /\ IF walked = <<>> THEN TRUE ELSE StrLess(walked[Len(walked)], f.Path)
         /\ walked' = Append(walked, f.Path)
         /\ schema' = walkFile(f, schema)
    /\ UNCHANGED <<pc, openapi, consolidated, rawFile, outFile, fnVars>>

\* the walk reports an error: main prints it and exits with status 1
WalkError ==
    /\ pc = "walk"
    /\ pc' = "exit1"
    /\ UNCHANGED <<walked, openapi, schema, consolidated, rawFile, outFile, fnVars>>

WalkDone ==
    /\ pc = "walk"
    /\ pc' = "openapi"
    /\ UNCHANGED <<walked, openapi, schema, consolidated, rawFile, outFile, fnVars>>

\* -openapi is empty
NoOpenAPI ==
    /\ pc = "openapi"
    /\ pc' = "dump"
    /\ UNCHANGED <<walked, openapi, schema, consolidated, rawFile, outFile, fnVars>>

\* parseOpenAPIFile fails: main prints the error and exits with status 1
LoadOpenAPIError ==
    /\ pc = "openapi"
    /\ \E d \in OpenAPIDocs : ~d.Valid
    /\ pc' = "exit1"
    /\ UNCHANGED <<walked, openapi, schema, consolidated, rawFile, outFile, fnVars>>

\* parseOpenAPIFile succeeds and its records are put into the accumulator
LoadOpenAPI ==
    /\ pc = "openapi"
    /\ \E d \in OpenAPIDocs :
         /\ d.Valid
         /\ \E opOrder \in OperationVisitOrders(d) :
              LET openapiSchema == parseOpenAPIFile(d, opOrder)
              IN  \E putOrder \in Perms(DOMAIN openapiSchema) :
                     schema' = putAll(schema, openapiSchema, putOrder)
         /\ openapi' = <<d>>
    /\ pc' = "dump"
    /\ UNCHANGED <<walked, consolidated, rawFile, outFile, fnVars>>

\* -raw-out is empty
NoRawDump ==
    /\ pc = "dump"
    /\ pc' = "consolidate"
    /\ UNCHANGED <<walked, openapi, schema, consolidated, rawFile, outFile, fnVars>>

\* the mutant: the raw dump is written after consolidation
RawDump_AfterConsolidate ==
    /\ pc = "write"
    /\ rawFile = "absent"
    /\ rawFile' = "written"
    /\ UNCHANGED <<pc, walked, openapi, schema, consolidated, outFile, fnVars>>

RawDump ==
    /\ pc = "dump"
    /\ rawFile' = "written"
    /\ pc' = "consolidate"
    /\ UNCHANGED <<walked, openapi, schema, consolidated, outFile, fnVars>>

\* the mutant: the error of the raw dump is ignored and the run goes on
RawDumpError_Continue ==
    /\ pc = "dump"
    /\ rawFile' \in {"absent", "partial"}
    /\ pc' = "consolidate"
    /\ UNCHANGED <<walked, openapi, schema, consolidated, outFile, fnVars>>

\* writeJSONFile fails on the raw dump: main exits with status 1
RawDumpError ==
    /\ pc = "dump"
    /\ rawFile' \in {"absent", "partial"}
    /\ pc' = "exit1"
    /\ UNCHANGED <<walked, openapi, schema, consolidated, outFile, fnVars>>

Consolidate ==
    /\ pc = "consolidate"
    /\ \E order \in Perms(DOMAIN schema) :
         consolidated' = <<consolidateByNormalizedName(schema, order)>>
    /\ pc' = "write"
    /\ UNCHANGED <<walked, openapi, schema, rawFile, outFile, fnVars>>

WriteOut ==
    /\ pc = "write"
    /\ outFile' = "written"
    /\ pc' = "done"
    /\ UNCHANGED <<walked, openapi, schema, consolidated, rawFile, fnVars>>

\* writeJSONFile fails on the consolidated document: main exits with status 1
WriteOutError ==
    /\ pc = "write"
    /\ outFile' \in {"absent", "partial"}
    /\ pc' = "exit1"
    /\ UNCHANGED <<walked, openapi, schema, consolidated, rawFile, fnVars>>

Next ==
    \/ WalkFile
    \/ WalkError
    \/ WalkDone
    \/ NoOpenAPI
    \/ LoadOpenAPIError
    \/ LoadOpenAPI
    \/ NoRawDump
    \/ RawDump
    \/ RawDumpError
    \/ Consolidate
    \/ WriteOut
    \/ WriteOutError

Spec == Init /\ [][Next]_vars

(***************************************************************************)
(* Properties of a run                                                     *)
(***************************************************************************)

Entities == consolidated[1].Entities
EntityList == consolidated[1].EntityList

\* no two elements of a sequence of identity keys are equal
Distinct(keys) == \A i, j \in 1..Len(keys) : keys[i] = keys[j] => i = j

\* the accumulator keys of the records that belong to entity n
Group(n) == {k \in DOMAIN schema : entryNorm(schema[k]) = n}

\* C1: the consolidated schema does not depend on the order in which the
\* range over the accumulator visits its entries.
C1_VisitOrderIrrelevant ==
    consolidated # <<>> =>
        \A order \in Perms(DOMAIN schema) :
            consolidateByNormalizedName(schema, order) = consolidated[1]

\* C2: in every consolidated entity no two columns, no two relations and no
\* two operations share an identity key.
C2_NoDuplicateIdentity ==
    consolidated # <<>> =>
        \A n \in DOMAIN Entities :
            /\ Distinct(columnKeys(Entities[n].Columns))
            /\ Distinct(relationKeys(Entities[n].Relations))
            /\ Distinct(operationKeys(Entities[n].Operations))

\* the identity keys of the columns, relations and operations of a record
IdentityKeys(t) ==
    [Columns    |-> SeqToSet(columnKeys(t.Columns)),
     Relations  |-> SeqToSet(relationKeys(t.Relations)),
     Operations |-> SeqToSet(operationKeys(t.Operations))]

\* the entity map has exactly one record for each non-empty normalized name of
\* the accumulator, keyed by that name and carrying it; every accumulator
\* record of that name contributes to it (each of its columns with a non-empty
\* identity key, each of its relations and each of its operations is in the
\* entity by its identity) and no other record does (the entity has no identity
\* that is not of one of these records); the entity list holds exactly the
\* records of the map, each once
OneEntityPerGroup ==
    LET norms == {entryNorm(schema[k]) : k \in DOMAIN schema} \ {<<>>}
    IN  /\ DOMAIN Entities = norms
        /\ \A n \in norms :
             LET e == IdentityKeys(Entities[n])
             IN  /\ Entities[n].NormalizedName = n
                 /\ \A k \in Group(n) :
                      /\ IdentityKeys(schema[k]).Columns \ {<<>>} \subseteq e.Columns
                      /\ IdentityKeys(schema[k]).Relations \subseteq e.Relations
                      /\ IdentityKeys(schema[k]).Operations \subseteq e.Operations
                 /\ e.Columns \subseteq UNION {IdentityKeys(schema[k]).Columns : k \in Group(n)}
                 /\ e.Relations \subseteq UNION {IdentityKeys(schema[k]).Relations : k \in Group(n)}
                 /\ e.Operations \subseteq UNION {IdentityKeys(schema[k]).Operations : k \in Group(n)}
        /\ Len(EntityList) = Cardinality(norms)
        /\ {EntityList[i] : i \in 1..Len(EntityList)} = {Entities[n] : n \in norms}

\* C3 (as stated): the entity map has exactly one record for each distinct
\* non-empty normalized name of the accumulator, keyed by that name, the entity
\* list holds exactly the map's records, each once, and every accumulator
\* record contributes to the record keyed by its normalized name.
C3_EveryRecordContributes ==
    consolidated # <<>> =>
        /\ OneEntityPerGroup
        /\ \A k \in DOMAIN schema : entryNorm(schema[k]) \in DOMAIN Entities

\* C3 (amended): as above, but it is every accumulator record with a non-empty
\* normalized name that contributes to the record keyed by that name; a record
\* whose normalized name is empty contributes to no entity.
C3_OneEntityPerName ==
    consolidated # <<>> =>
        /\ OneEntityPerGroup
        /\ \A k \in DOMAIN schema :
             IF entryNorm(schema[k]) = <<>>
             THEN \A n \in DOMAIN Entities : k \notin Group(n)
             ELSE k \in Group(entryNorm(schema[k])) /\ entryNorm(schema[k]) \in DOMAIN Entities

\* two entities, one of them made of three records, and a record without a name
\* that belongs to none
C3_Witness ==
    /\ consolidated # <<>>
    /\ DOMAIN Entities = {sUser, sOrder}
    /\ Cardinality(Group(sUser)) = 3
    /\ <<>> \in DOMAIN schema
    /\ Entities[sUser].Source = "merged"

\* the operations parseOpenAPIFile extracts from the loaded document
LoadedOperations ==
    LET d == openapi[1]
    IN  { openAPIOperationInfo(d, pm[1], ToUpper(pm[2]), d.Paths[pm[1]][pm[2]][1]) :
            pm \in { x \in UNION {{<<p, m>> : m \in DOMAIN d.Paths[p]} : p \in DOMAIN d.Paths} :
                       d.Paths[x[1]][x[2]] # <<>> } }

HasOperation(ops, oi) == \E i \in 1..Len(ops) : ops[i] = oi

\* an operation with request schema req is attached to every record of the
\* document that normalizes to User, and to no other record; once consolidated
\* it is among the operations of entity User whenever the accumulator has a
\* record (hasUser) that should make that entity exist
OperationGoesToUser(req, hasUser) ==
    openapi # <<>> =>
        \A oi \in {o \in LoadedOperations : o.RequestSchema = req} :
            /\ \A k \in DOMAIN schema :
                 HasOperation(schema[k].Operations, oi) <=>
                    (schema[k].Source = "openapi" /\ schema[k].NormalizedName = sUser)
            /\ (consolidated # <<>> /\ hasUser) =>
                 /\ sUser \in DOMAIN Entities
                 /\ HasOperation(Entities[sUser].Operations, oi)

GroupColumns(n) ==
    UNION {{schema[k].Columns[i] : i \in 1..Len(schema[k].Columns)} : k \in Group(n)}

\* C8: when a source struct and a specification schema make one entity, the
\* fields with equal identity keys become one column, so the entity has as many
\* columns as its records have distinct identity keys, and a column is an array
\* when one of the fields it unifies is.
C8_OneColumnPerIdentity ==
    consolidated # <<>> =>
        \A n \in DOMAIN Entities :
            ( /\ \E k \in Group(n) : schema[k].Source = "openapi"
              /\ \E k \in Group(n) : schema[k].Source # "openapi" ) =>
                /\ Len(Entities[n].Columns) =
                     Cardinality({columnKey(c) : c \in GroupColumns(n)})
                /\ \A i \in 1..Len(Entities[n].Columns) :
                     Entities[n].Columns[i].IsArray =
                        (\E c \in GroupColumns(n) :
                            columnKey(c) = columnKey(Entities[n].Columns[i]) /\ c.IsArray)

\* the file of GoFiles at a path
FileAt(path) == CHOOSE f \in GoFiles : f.Path = path

\* the accumulator after the walk callback has run on the files at paths that
\* parse, in order, leaving out those that do not
RECURSIVE ParsedRecords(_, _)
ParsedRecords(paths, m) ==
    IF paths = <<>> THEN m
    ELSE \* v is the accumulator after the file at Head(paths), computed once
         CHOOSE r \in {ParsedRecords(Tail(paths), v) :
                          v \in {IF FileAt(Head(paths)).Parses
                                 THEN walkFile(FileAt(Head(paths)), m) ELSE m}} : TRUE

\* C13: a file that fails to parse leaves the accumulator as it was and the
\* walk goes on (the accumulator after the walk holds the records of the files
\* that did parse, as if the failing files were not there), and a consolidated
\* document that is written holds the records of all files that did parse.
C13_ParseFailureSkipped ==
    /\ [][\A f \in GoFiles :
            (pc = "walk" /\ ~f.Parses /\ walked' = Append(walked, f.Path)) =>
                (schema' = schema /\ pc' = "walk")]_vars
    /\ [](pc \in {"walk", "openapi"} => schema = ParsedRecords(walked, EmptyMap))
    /\ [](outFile = "written" =>
            LET parsed == ParsedRecords(walked, EmptyMap)
            IN  \A k \in DOMAIN parsed :
                  /\ k \in DOMAIN schema
                  /\ schema[k] = parsed[k]
                  /\ entryNorm(parsed[k]) # <<>> =>
                       /\ entryNorm(parsed[k]) \in DOMAIN Entities
                       /\ IdentityKeys(parsed[k]).Columns \ {<<>>}
                             \subseteq IdentityKeys(Entities[entryNorm(parsed[k])]).Columns
                       /\ IdentityKeys(parsed[k]).Relations
                             \subseteq IdentityKeys(Entities[entryNorm(parsed[k])]).Relations)

\* broken.go failed to parse, user.go was parsed after it and entity User is in
\* the document written
C13_Witness ==
    /\ outFile = "written"
    /\ pc = "done"
    /\ walked = <<fileBroken.Path, fileUserDo.Path>>
    /\ sUser \in DOMAIN Entities
    /\ Len(Entities[sUser].Columns) >= 2

\* C14: a step in which the walk reports an error, the OpenAPI document cannot
\* be loaded or the raw dump cannot be written ends the run with exit status 1
\* and the consolidated output file absent; nothing happens after the exit, so
\* the file is never created or written in that run.
C14_AbortWritesNoOutput ==
    /\ [][(WalkError \/ LoadOpenAPIError \/ RawDumpError) =>
            (pc' = "exit1" /\ outFile' = "absent" /\ consolidated' = <<>>)]_vars
    /\ [][pc # "exit1"]_vars
    /\ []((pc = "exit1" /\ consolidated = <<>>) => outFile = "absent")

\* the raw dump failed half-way after both extractions: exit status 1, no output file
C14_Witness ==
    /\ pc = "exit1"
    /\ rawFile = "partial"
    /\ openapi # <<>>
    /\ walked # <<>>
    /\ consolidated = <<>>
    /\ outFile = "absent"

\* C16: in the consolidated schema the columns of each entity are in
\* non-decreasing order of wire name (raw name when the wire name is empty),
\* its operations in non-decreasing order of (path, method), and the entity
\* list is in strictly increasing order of normalized name.
C16_SortedOutput ==
    consolidated # <<>> =>
        /\ \A n \in DOMAIN Entities :
             /\ \A i, j \in 1..Len(Entities[n].Columns) :
                  i < j => ~StrLess(WireName(Entities[n].Columns[j]),
                                    WireName(Entities[n].Columns[i]))
             /\ \A i, j \in 1..Len(Entities[n].Operations) :
                  i < j =>
                    LET a == Entities[n].Operations[i]
                        b == Entities[n].Operations[j]
                    IN  \/ StrLess(a.Path, b.Path)
                        \/ a.Path = b.Path /\ ~StrLess(b.Method, a.Method)
        /\ \A i, j \in 1..Len(EntityList) :
             i < j => StrLess(EntityList[i].NormalizedName, EntityList[j].NormalizedName)

\* entity Order has its columns Note, _, id in another order than the struct
\* declares them, entity User has two operations, and Order is listed before User
C16_Witness ==
    /\ consolidated # <<>>
    /\ Len(EntityList) = 2
    /\ EntityList[1].NormalizedName = sOrder
    /\ EntityList[2].NormalizedName = sUser
    /\ Len(EntityList[2].Operations) = 2
    /\ Len(EntityList[1].Columns) = 3
    /\ EntityList[1].Columns[3].JSONName = sid
    /\ EntityList[1].Columns[2].Name = sBlank

\* the place of a phase in the run
PhaseRank ==
    [p \in {"walk", "openapi", "dump", "consolidate", "write", "done", "exit1"} |->
        CASE p = "walk" -> 1 [] p = "openapi" -> 2 [] p = "dump" -> 3
          [] p = "consolidate" -> 4 [] p = "write" -> 5 [] OTHER -> 6]

\* C17: the phases of a run come in one order and never overlap: files are
\* walked only before the OpenAPI extraction, which happens once, after the
\* walk; the raw dump is written only after both and before consolidation;
\* consolidation comes next and the consolidated document is written last;
\* the accumulator changes only in the two extractions.
C17_PhasesInOrder ==
    /\ [][PhaseRank[pc'] >= PhaseRank[pc]]_vars
    /\ [][walked' # walked =>
            (pc = "walk" /\ pc' = "walk" /\ openapi = <<>> /\ rawFile = "absent"
             /\ consolidated = <<>> /\ outFile = "absent")]_vars
    /\ [][openapi' # openapi =>
            (pc = "openapi" /\ pc' = "dump" /\ openapi = <<>> /\ rawFile = "absent"
             /\ consolidated = <<>> /\ outFile = "absent")]_vars
    /\ [][rawFile' # rawFile =>
            (pc = "dump" /\ pc' \in {"consolidate", "exit1"} /\ walked' = walked
             /\ schema' = schema /\ consolidated = <<>> /\ outFile = "absent")]_vars
    /\ [][consolidated' # consolidated =>
            (pc = "consolidate" /\ pc' = "write" /\ consolidated = <<>>
             /\ rawFile' = rawFile /\ outFile = "absent")]_vars
    /\ [][outFile' # outFile =>
            (pc = "write" /\ pc' \in {"done", "exit1"} /\ consolidated # <<>>
             /\ consolidated' = consolidated /\ rawFile' = rawFile)]_vars
    /\ [][schema' # schema => pc \in {"walk", "openapi"}]_vars
    /\ [][pc \notin {"done", "exit1"}]_vars

\* a run with both extractions, the raw dump and the consolidated document
C17_Witness ==
    /\ pc = "done"
    /\ Len(walked) = 2
    /\ openapi # <<>>
    /\ schema # EmptyMap
    /\ rawFile = "written"
    /\ outFile = "written"

\* C18: an entity built from two or more records has provenance "merged", an
\* entity built from one record has that record's provenance, and when one of
\* the records of an entity comes from the OpenAPI document the struct name of
\* the entity is the name of such a record, whatever the visiting order.
C18_ProvenanceAndName ==
    consolidated # <<>> =>
        \A n \in DOMAIN Entities :
            /\ Cardinality(Group(n)) >= 2 => Entities[n].Source = "merged"
            /\ Cardinality(Group(n)) = 1 =>
                 \A k \in Group(n) : Entities[n].Source = schema[k].Source
            /\ (\E k \in Group(n) : schema[k].Source = "openapi") =>
                 \E k \in Group(n) : /\ schema[k].Source = "openapi"
                                     /\ Entities[n].StructName = schema[k].StructName

\* entity User is made of the Go struct UserCreateReq and the schema User and is
\* named User; entity CreateUser is the schema CreateUserReq alone
C18_Witness ==
    /\ consolidated # <<>>
    /\ walked = <<fileUserApi.Path>>
    /\ openapi = <<docCreateUserReq>>
    /\ Cardinality(Group(sUser)) = 2
    /\ Entities[sUser].StructName = sUser
    /\ Entities[sUser].Source = "merged"
    /\ Entities[sCreateUser].Source = "openapi"

(***************************************************************************)
(* collectOpenAPIObject exercised alone, one call of the recursion at a     *)
(* time.  The Go call stack is a stack of frames: "visit" is a call of      *)
(* collectOpenAPIObject on a schema pointer, "props" is the loop over       *)
(* s.Properties that ends the call of a schema that is not a reference.     *)
(* expanded lists the reference targets the recursion went into, in order.  *)
(***************************************************************************)

sMissing == <<"M", "i", "s", "s", "i", "n", "g">>
sNoSlash == <<"n", "o", "p", "e">>
sdetailProp == <<"d", "e", "t", "a", "i", "l">>

\* User and UserDetail refer to each other through allOf and oneOf, UserDetail
\* to itself through anyOf; Order is a reference to itself; Class composes the
\* same target twice, a target that is not in the document and a reference
\* without a name
docCyclic ==
    [ Valid |-> TRUE,
      Schemas |->
          (sUser :> [ObjectSchema((sroleIds :> ArraySchema(Primitive("integer"))), <<sroleIds>>)
                        EXCEPT !.AllOf = <<RefTo(sUserDetail), schemaNameOnly>>])
          @@ (sUserDetail :> [ObjectSchema((suid :> Primitive("integer")), <<suid>>)
                                EXCEPT !.OneOf = <<RefTo(sUser), RefTo(sOrder)>>,
                                       !.AnyOf = <<RefTo(sUserDetail)>>])
          @@ (sOrder :> RefTo(sOrder))
          @@ (sClass :> [EmptySchema EXCEPT
                            !.AllOf = <<RefTo(sUser), RefTo(sUser), RefTo(sMissing),
                                        [EmptySchema EXCEPT !.Ref = sNoSlash]>>]),
      Paths |-> EmptyMap ]

\* a ring of references User -> Order -> Class -> User, each link through a
\* different keyword, and a property whose own schema refers back to the ring
docRing ==
    [ Valid |-> TRUE,
      Schemas |->
          (sUser :> [ObjectSchema((sname :> Primitive("string")), <<>>)
                        EXCEPT !.AnyOf = <<RefTo(sOrder)>>])
          @@ (sOrder :> [ObjectSchema((sid :> Primitive("integer")), <<sid>>)
                            EXCEPT !.OneOf = <<[EmptySchema EXCEPT !.AllOf = <<RefTo(sClass)>>]>>])
          @@ (sClass :> [ObjectSchema((sdetailProp :> RefTo(sUser)), <<>>)
                            EXCEPT !.AllOf = <<RefTo(sUser), RefTo(sOrder)>>])
          @@ (sReq :> RefTo(sClass)),
      Paths |-> EmptyMap ]

\* User chooses between Order and Class (oneOf) and between two inline schemas
\* (anyOf); each branch has a property that no other schema has
docChoice ==
    [ Valid |-> TRUE,
      Schemas |->
          (sUser :> [ObjectSchema((sid :> Primitive("integer")), <<sid>>)
                        EXCEPT !.OneOf = <<RefTo(sOrder), RefTo(sClass)>>,
                               !.AnyOf = <<ObjectSchema((suid :> Primitive("integer")), <<>>),
                                           ObjectSchema((sdetailProp :> RefTo(sOrder)), <<>>)>>])
          @@ (sOrder :> ObjectSchema((sname :> Primitive("string")), <<sname>>))
          @@ (sClass :> ObjectSchema((sroleIds :> ArraySchema(Primitive("integer"))),
                                     <<sroleIds>>)),
      Paths |-> EmptyMap ]

CollectDocs == {docCyclic, docRing, docChoice, docUsers, docOrders}

VisitFrame(s) == [kind |-> "visit", s |-> s]
PropsFrame(s) == [kind |-> "props", s |-> s]

\* the mutant: every oneOf and anyOf member is followed
calledFrames_EveryBranch(s) ==
    [i \in 1..Len(s.AllOf) |-> VisitFrame(<<s.AllOf[i]>>)]
    \o [i \in 1..Len(s.OneOf) |-> VisitFrame(<<s.OneOf[i]>>)]
    \o [i \in 1..Len(s.AnyOf) |-> VisitFrame(<<s.AnyOf[i]>>)]
    \o <<PropsFrame(<<s>>)>>

\* the mutant: of the allOf members only the first is followed
calledFrames_FirstAllOf(s) ==
    (IF Len(s.AllOf) > 0 THEN <<VisitFrame(<<s.AllOf[1]>>)>> ELSE <<>>)
    \o (IF Len(s.OneOf) > 0 THEN <<VisitFrame(<<s.OneOf[1]>>)>> ELSE <<>>)
    \o (IF Len(s.AnyOf) > 0 THEN <<VisitFrame(<<s.AnyOf[1]>>)>> ELSE <<>>)
    \o <<PropsFrame(<<s>>)>>

\* the calls a schema that is not a reference makes, in order: one per allOf
\* member, oneOf[0], anyOf[0], then its own properties
calledFrames(s) ==
    [i \in 1..Len(s.AllOf) |-> VisitFrame(<<s.AllOf[i]>>)]
    \o (IF Len(s.OneOf) > 0 THEN <<VisitFrame(<<s.OneOf[1]>>)>> ELSE <<>>)
    \o (IF Len(s.AnyOf) > 0 THEN <<VisitFrame(<<s.AnyOf[1]>>)>> ELSE <<>>)
    \o <<PropsFrame(<<s>>)>>

\* the mutant: a reference target is expanded whether or not it was visited
collectStep_Revisit(spec, st) ==
    LET f == Head(st.stack)
        rest == Tail(st.stack)
    IN  IF f.kind = "props"
        THEN [st EXCEPT !.stack = rest, !.props = setProperties(@, f.s[1].Properties)]
        ELSE IF f.s = <<>> THEN [st EXCEPT !.stack = rest]
        ELSE IF f.s[1].Ref # <<>>
        THEN LET name == openAPIRefName(f.s[1].Ref)
             IN  IF name = <<>> THEN [st EXCEPT !.stack = rest]
                 ELSE [st EXCEPT !.stack = <<VisitFrame(schemaNamed(spec, name))>> \o rest,
                                 !.visited = @ \cup {name},
                                 !.expanded = Append(@, name)]
        ELSE [st EXCEPT !.stack = calledFrames(f.s[1]) \o rest,
                        !.required = @ \cup SeqToSet(f.s[1].Required)]

\* the frame on top of the stack runs up to its next call or to its end
collectStep(spec, st) ==
    LET f == Head(st.stack)
        rest == Tail(st.stack)
    IN  IF f.kind = "props"
        THEN [st EXCEPT !.stack = rest, !.props = setProperties(@, f.s[1].Properties)]
        ELSE IF f.s = <<>> THEN [st EXCEPT !.stack = rest]
        ELSE IF f.s[1].Ref # <<>>
        THEN LET name == openAPIRefName(f.s[1].Ref)
             IN  IF name = <<>> \/ name \in st.visited THEN [st EXCEPT !.stack = rest]
                 ELSE [st EXCEPT !.stack = <<VisitFrame(schemaNamed(spec, name))>> \o rest,
                                 !.visited = @ \cup {name},
                                 !.expanded = Append(@, name)]
        ELSE [st EXCEPT !.stack = calledFrames(f.s[1]) \o rest,
                        !.required = @ \cup SeqToSet(f.s[1].Required)]

InitCollect ==
    /\ PipeIdle
    /\ fnPc = "run"
    /\ fnIn \in UNION {{[spec |-> d, name |-> n] : n \in DOMAIN d.Schemas} : d \in CollectDocs}
    /\ fnOut = [stack |-> <<VisitFrame(<<fnIn.spec.Schemas[fnIn.name]>>)>>,
                visited |-> {}, props |-> EmptyMap, required |-> {}, expanded |-> <<>>]

CollectStep ==
    /\ fnPc = "run"
    /\ fnOut.stack # <<>>
    /\ fnOut' = collectStep(fnIn.spec, fnOut)
    /\ UNCHANGED <<fnPc, fnIn, pipeVars>>

CollectReturn ==
    /\ fnPc = "run"
    /\ fnOut.stack = <<>>
    /\ fnPc' = "ret"
    /\ UNCHANGED <<fnIn, fnOut, pipeVars>>

NextCollect == CollectStep \/ CollectReturn

\* a call that can run does run
SpecCollect == InitCollect /\ [][NextCollect]_vars /\ WF_vars(NextCollect)

\* C15: collectOpenAPIObject returns for every top-level schema of every
\* document, cyclic ones included; within one top-level schema no reference
\* target is expanded twice; what the calls leave in visited, props and
\* required is what the recursion computes.
C15_CollectTerminates ==
    /\ <>(fnPc = "ret")
    /\ [](Distinct(fnOut.expanded))
    /\ [](fnPc = "ret" =>
            [visited |-> fnOut.visited, props |-> fnOut.props, required |-> fnOut.required]
              = collectOpenAPIObject(fnIn.spec, <<fnIn.spec.Schemas[fnIn.name]>>,
                                     [visited |-> {}, props |-> EmptyMap, required |-> {}]))

\* the collection on User of the cyclic document returned after going into
\* UserDetail and from there into User again, each once
C15_Witness ==
    /\ fnPc = "ret"
    /\ fnIn.spec = docCyclic
    /\ fnIn.name = sUser
    /\ fnOut.expanded = <<sUserDetail, sUser>>
    /\ DOMAIN fnOut.props = {sroleIds, suid, sname}

\* the schema resolved by the call
TopSchema == fnIn.spec.Schemas[fnIn.name]

\* the schemas a schema composes directly: the target of a reference that has
\* a name and is in the document, the allOf members of a schema that is none
ComposedBy(spec, s) ==
    IF s.Ref # <<>>
    THEN LET name == openAPIRefName(s.Ref)
         IN  IF name # <<>> /\ name \in DOMAIN spec.Schemas THEN {spec.Schemas[name]} ELSE {}
    ELSE SeqToSet(s.AllOf)

\* S with every schema composed, directly or through others, by one of S
RECURSIVE AllOfClosure(_, _)
AllOfClosure(spec, S) ==
    LET T == S \cup UNION {ComposedBy(spec, s) : s \in S}
    IN  IF T = S THEN S ELSE AllOfClosure(spec, T)

\* C23: for a schema that uses allOf, the resolved properties hold the
\* schema's own properties, with their own schemas, and every property name of
\* every allOf branch, references and nested allOf followed; the resolved
\* required set holds every required name of the schema and of every branch.
C23_AllOfUnion ==
    (fnPc = "ret" /\ TopSchema.Ref = <<>> /\ Len(TopSchema.AllOf) > 0) =>
        /\ \A k \in DOMAIN TopSchema.Properties :
             k \in DOMAIN fnOut.props /\ fnOut.props[k] = TopSchema.Properties[k]
        /\ \A s \in AllOfClosure(fnIn.spec, {TopSchema}) :
             s.Ref = <<>> =>
                /\ DOMAIN s.Properties \subseteq DOMAIN fnOut.props
                /\ SeqToSet(s.Required) \subseteq fnOut.required

\* User of docCyclic: its own roleIds, uid of the referenced UserDetail and
\* name of the inline second branch
C23_Witness ==
    /\ fnPc = "ret"
    /\ fnIn.spec = docCyclic
    /\ fnIn.name = sUser
    /\ DOMAIN fnOut.props = {sroleIds, suid, sname}
    /\ fnOut.required = {sroleIds, suid}

\* the schemas whose properties a schema takes in directly: the target of a
\* reference, or the allOf members, the first oneOf member and the first anyOf
\* member
FollowedBy(spec, s) ==
    IF s.Ref # <<>> THEN ComposedBy(spec, s)
    ELSE SeqToSet(s.AllOf)
         \cup (IF Len(s.OneOf) > 0 THEN {s.OneOf[1]} ELSE {})
         \cup (IF Len(s.AnyOf) > 0 THEN {s.AnyOf[1]} ELSE {})

RECURSIVE FollowedClosure(_, _)
FollowedClosure(spec, S) ==
    LET T == S \cup UNION {FollowedBy(spec, s) : s \in S}
    IN  IF T = S THEN S ELSE FollowedClosure(spec, T)

\* the property names of the schemas of S that are not references
PropertyNames(S) == UNION {DOMAIN s.Properties : s \in {x \in S : x.Ref = <<>>}}

\* the members of a oneOf or anyOf list after the first
LaterBranches(s) ==
    {s.OneOf[i] : i \in 2..Len(s.OneOf)} \cup {s.AnyOf[i] : i \in 2..Len(s.AnyOf)}

\* C24: for a schema that uses oneOf or anyOf, the resolved property names
\* are those of the schema, of its allOf members and of the first member of
\* each oneOf and anyOf list, followed the same way; a property found only
\* under a later member of a oneOf or anyOf list is not in the resolved set.
C24_FirstBranchOnly ==
    (fnPc = "ret" /\ TopSchema.Ref = <<>>
       /\ (Len(TopSchema.OneOf) > 0 \/ Len(TopSchema.AnyOf) > 0)) =>
        /\ DOMAIN fnOut.props = PropertyNames(FollowedClosure(fnIn.spec, {TopSchema}))
        /\ \A b \in LaterBranches(TopSchema) :
             \A k \in PropertyNames(FollowedClosure(fnIn.spec, {b})) :
                k \notin PropertyNames(FollowedClosure(fnIn.spec, {TopSchema}))
                    => k \notin DOMAIN fnOut.props

\* User of docChoice: id of its own, name of Order (oneOf[0]) and uid of
\* anyOf[0]; roleIds of Class (oneOf[1]) and detail of anyOf[1] are left out
C24_Witness ==
    /\ fnPc = "ret"
    /\ fnIn.spec = docChoice
    /\ fnIn.name = sUser
    /\ DOMAIN fnOut.props = {sid, sname, suid}
    /\ sroleIds \notin DOMAIN fnOut.props
    /\ sdetailProp \notin DOMAIN fnOut.props

\* the relations of t are in non-descending order of their identity key
relationsSorted(t) ==
    \A i \in 1..(Len(t.Relations) - 1) :
        ~StrLess(relationKey(t.Relations[i + 1]), relationKey(t.Relations[i]))

\* C20: the relations of every consolidated entity are sorted, and the order
\* of their identities is the same for every order in which the accumulator's
\* records can be visited and merged.
C20_RelationsSortedAnyOrder ==
    consolidated # <<>> =>
        \A n \in DOMAIN Entities :
            /\ relationsSorted(Entities[n])
            /\ \A order \in Perms(DOMAIN schema) :
                 relationKeys(consolidateByNormalizedName(schema, order).Entities[n].Relations)
                     = relationKeys(Entities[n].Relations)

\* the entities that have operation oi among their operations
EntitiesWithOperation(oi) ==
    {n \in DOMAIN Entities : HasOperation(Entities[n].Operations, oi)}

\* C28: every operation of the loaded document is, in the consolidated
\* schema, among the operations of exactly one entity, the one named by the
\* normalized inferred entity name of the operation.
C28_NoOperationLost ==
    (openapi # <<>> /\ consolidated # <<>>) =>
        \A oi \in LoadedOperations :
            EntitiesWithOperation(oi)
                = {normalizeEntityName(inferEntityNameForOperation(oi))}

\* C29: for every record of the accumulator and every column of it, the
\* consolidated entity of the record's normalized name has a column with the
\* same identity key, whether the record was cloned or merged.
C29_NoColumnLost ==
    consolidated # <<>> =>
        \A k \in DOMAIN schema :
            \A i \in 1..Len(schema[k].Columns) :
                /\ entryNorm(schema[k]) \in DOMAIN Entities
                /\ \E j \in 1..Len(Entities[entryNorm(schema[k])].Columns) :
                     columnKey(Entities[entryNorm(schema[k])].Columns[j])
                         = columnKey(schema[k].Columns[i])

\* a constraint set with at least one field that is not at its default
NonDefault(c) ==
    \/ c.Required
    \/ c.Nullable
    \/ c.MinLength # <<>>
    \/ c.MaxLength # <<>>
    \/ c.Minimum # <<>>
    \/ c.Maximum # <<>>
    \/ c.Pattern # ""
    \/ c.Format # ""
    \/ c.Enum # <<>>

\* every constraint set of the columns of t is absent or not all-default
ConstraintsAbsentOrSet(t) ==
    \A i \in 1..Len(t.Columns) :
        t.Columns[i].Constraints # <<>> => NonDefault(t.Columns[i].Constraints[1])

\* C22: in every column of every record of the accumulator (from the Go walk
\* and from the OpenAPI document) and of every consolidated entity, the
\* constraint set is absent or has a field that is not at its default.
C22_NoAllDefaultConstraints ==
    /\ \A k \in DOMAIN schema : ConstraintsAbsentOrSet(schema[k])
    /\ consolidated # <<>> =>
         /\ \A n \in DOMAIN Entities : ConstraintsAbsentOrSet(Entities[n])
         /\ \A i \in 1..Len(EntityList) : ConstraintsAbsentOrSet(EntityList[i])

\* the merged entity User has the column name with a constraint set (required,
\* minLength 3) and the column roleIds, whose schema has no constraint, with none
C22_Witness ==
    /\ consolidated # <<>>
    /\ sUser \in DOMAIN Entities
    /\ Entities[sUser].Source = "merged"
    /\ \E i, j \in 1..Len(Entities[sUser].Columns) :
         LET c == Entities[sUser].Columns[i]
             d == Entities[sUser].Columns[j]
         IN  /\ c.JSONName = sname
             /\ c.Constraints # <<>>
             /\ c.Constraints[1].Required
             /\ c.Constraints[1].MinLength = <<3>>
             /\ d.JSONName = sroleIds
             /\ d.Constraints = <<>>

(***************************************************************************)
(* consolidateByNormalizedName on one group, with the objects behind the   *)
(* pointers and slices at addresses.  mem maps an address to the object     *)
(* there: the backing array of a column slice or of a relation slice        *)
(* ([elems |-> ...]), a FieldConstraints, the backing array of an Enum      *)
(* list, a RelationNode.  A pointer or slice is an address, <<>> when nil;  *)
(* the objects of accumulator record r are at <<"cols", r>>,                *)
(* <<"cons", r, i>>, <<"enum", r, i>>, <<"rels", r>>, <<"rel", r, i>>, the  *)
(* objects consolidation allocates at <<"new", n>>.                         *)
(***************************************************************************)

colStatusApi ==
    Column(<<"s", "t", "a", "t", "u", "s">>, <<"s", "t", "a", "t", "u", "s">>, sstring, "",
           <<[Constraint(FALSE, FALSE, <<>>, <<>>, <<>>, <<>>, "") EXCEPT !.Enum = <<"on", "off">>]>>,
           FALSE, "openapi")
colStatusGo == Column(<<"S", "t", "a", "t", "u", "s">>, <<>>, sstring, "", <<>>, FALSE, "go:do")
colNameRequired ==
    Column(sname, sname, sstring, "", <<Constraint(TRUE, FALSE, <<>>, <<30>>, <<>>, <<>>, "")>>,
           FALSE, "openapi")

\* the records of one entity, as the extractors leave them in the accumulator
HeapTables ==
    { Table(sUser, "go:do", <<colStatusGo, colNameGo>>, <<relDetail>>, <<>>),
      Table(sUser, "go:do", <<>>, <<relDetailLower>>, <<>>),
      Table(sUser, "openapi", <<colStatusApi, colNameApi>>, <<>>, <<>>),
      Table(sUserCreateReq, "openapi", <<colNameRequired>>, <<>>, <<>>),
      Table(sUserCreateReq, "go:api", <<colNameGo, colRoleIDsGo, colBlankGo>>, <<relDetail>>, <<>>),
      Table(sUser, "openapi", <<colRoleIdsApi>>, <<>>, <<>>) }

\* the addresses of the objects of record t, the r-th of the accumulator
AddressesOf(r, t) ==
    {<<"cols", r>>, <<"rels", r>>}
    \cup {<<"cons", r, i>> : i \in {j \in 1..Len(t.Columns) : t.Columns[j].Constraints # <<>>}}
    \cup {<<"enum", r, i>> : i \in {j \in 1..Len(t.Columns) :
                                     /\ t.Columns[j].Constraints # <<>>
                                     /\ t.Columns[j].Constraints[1].Enum # <<>>}}
    \cup {<<"rel", r, i>> : i \in 1..Len(t.Relations)}

\* the object of record t at address a
ObjectAt(t, a) ==
    CASE a[1] = "cols" ->
           [elems |-> [i \in 1..Len(t.Columns) |->
                          [t.Columns[i] EXCEPT !.Constraints =
                              IF @ = <<>> THEN <<>> ELSE <<"cons", a[2], i>>]]]
      [] a[1] = "cons" ->
           [t.Columns[a[3]].Constraints[1] EXCEPT !.Enum =
               IF @ = <<>> THEN <<>> ELSE <<"enum", a[2], a[3]>>]
      [] a[1] = "enum" -> [elems |-> t.Columns[a[3]].Constraints[1].Enum]
      [] a[1] = "rels" -> [elems |-> [i \in 1..Len(t.Relations) |-> <<"rel", a[2], i>>]]
      [] OTHER -> t.Relations[a[3]]

\* the memory that holds the records of acc
LoadedMemory(acc) ==
    [a \in UNION {AddressesOf(r, acc[r]) : r \in 1..Len(acc)} |-> ObjectAt(acc[a[2]], a)]

\* the TableMetadata of the r-th record: its slices are addresses
LoadedTable(r, t) ==
    [ StructName |-> t.StructName, NormalizedName |-> t.NormalizedName, Source |-> t.Source,
      Columns |-> <<"cols", r>>, Relations |-> <<"rels", r>> ]

\* a new object: h is [mem, next], the object is put at <<"new", h.next>>
NewAddress(h) == <<"new", h.next>>
Allocate(h, object) ==
    [mem |-> (NewAddress(h) :> object) @@ h.mem, next |-> h.next + 1]

\* len of a slice
SliceLen(h, slice) == IF slice = <<>> THEN 0 ELSE Len(h.mem[slice].elems)

\* append([]T(nil), in...), as cloneTableMetadata copies a slice that is not empty
CopySlice(h, slice) ==
    IF SliceLen(h, slice) > 0
    THEN [h |-> Allocate(h, [elems |-> h.mem[slice].elems]), slice |-> NewAddress(h)]
    ELSE [h |-> h, slice |-> <<>>]

\* append(*dst, x): in place in the array dst owns, a new array when dst is nil
AppendSlice(h, slice, x) ==
    IF slice = <<>>
    THEN [h |-> Allocate(h, [elems |-> <<x>>]), slice |-> NewAddress(h)]
    ELSE [h |-> [h EXCEPT !.mem[slice].elems = Append(@, x)], slice |-> slice]

\* cloneTableMetadata: [h, t], the record t has new slices with the elements of in's
cloneTableMetadataAt(h, in) ==
    LET cols == CopySlice(h, in.Columns)
        rels == CopySlice(cols.h, in.Relations)
    IN  [h |-> rels.h,
         t |-> [ StructName |-> in.StructName, NormalizedName |-> in.NormalizedName,
                 Source |-> in.Source, Columns |-> cols.slice, Relations |-> rels.slice ]]

\* mergeConstraints on two pointers: [h, p]
mergeConstraintsAt(h, a, b) ==
    IF a = <<>> /\ b = <<>> THEN [h |-> h, p |-> <<>>]
    ELSE IF a = <<>> THEN [h |-> Allocate(h, h.mem[b]), p |-> NewAddress(h)]
    ELSE IF b = <<>> THEN [h |-> h, p |-> a]
    ELSE LET A == h.mem[a]
             B == h.mem[b]
             scalars == mergeConstraints(<<[A EXCEPT !.Enum = <<>>]>>, <<[B EXCEPT !.Enum = <<>>]>>)
             copied == A.Enum = <<>> /\ B.Enum # <<>> /\ SliceLen(h, B.Enum) > 0
             h1 == IF copied THEN Allocate(h, [elems |-> h.mem[B.Enum].elems]) ELSE h
             enum == IF copied THEN NewAddress(h) ELSE A.Enum
         IN  IF scalars = <<>> /\ enum = <<>> THEN [h |-> h1, p |-> <<>>]
             ELSE [h |-> Allocate(h1, [(IF scalars = <<>> THEN [A EXCEPT !.Enum = <<>>]
                                        ELSE scalars[1]) EXCEPT !.Enum = enum]),
                   p |-> NewAddress(h1)]

\* mergeColumn on two ColumnInfo values whose Constraints are pointers: [h, c]
mergeColumnAt(h, a, b) ==
    LET cons == mergeConstraintsAt(h, a.Constraints, b.Constraints)
    IN  [h |-> cons.h,
         c |-> [mergeColumn([a EXCEPT !.Constraints = <<>>], [b EXCEPT !.Constraints = <<>>])
                   EXCEPT !.Constraints = cons.p]]

\* mergeColumns: [h, slice]
RECURSIVE mergeColumnsAt(_, _, _)
mergeColumnsAt(h, dst, src) ==
    IF src = <<>> THEN [h |-> h, slice |-> dst]
    ELSE LET c == Head(src)
             k == columnKey(c)
             i == IF dst = <<>> THEN 0 ELSE IndexOfKey(h.mem[dst].elems, k)
         IN  IF k = <<>> THEN mergeColumnsAt(h, dst, Tail(src))
             ELSE IF i # 0
             THEN LET m == mergeColumnAt(h, h.mem[dst].elems[i], c)
                  IN  mergeColumnsAt([m.h EXCEPT !.mem[dst].elems[i] = m.c], dst, Tail(src))
             ELSE LET a == AppendSlice(h, dst, c)
                  IN  mergeColumnsAt(a.h, a.slice, Tail(src))

\* mergeRelations: [h, slice]; the elements are pointers to RelationNode
RECURSIVE mergeRelationsAt(_, _, _)
mergeRelationsAt(h, dst, src) ==
    IF src = <<>> THEN [h |-> h, slice |-> dst]
    ELSE LET r == Head(src)
             k == relationKey(h.mem[r])
             seen == dst # <<>> /\ \E i \in 1..SliceLen(h, dst) :
                                      relationKey(h.mem[h.mem[dst].elems[i]]) = k
         IN  IF seen THEN mergeRelationsAt(h, dst, Tail(src))
             ELSE LET a == AppendSlice(h, dst, r)
                  IN  mergeRelationsAt(a.h, a.slice, Tail(src))

\* mergeTableMetadata: [h, t]
mergeTableMetadataAt(h, dst, src) ==
    LET cols == mergeColumnsAt(h, dst.Columns,
                               IF src.Columns = <<>> THEN <<>> ELSE h.mem[src.Columns].elems)
        rels == mergeRelationsAt(cols.h, dst.Relations,
                                 IF src.Relations = <<>> THEN <<>> ELSE cols.h.mem[src.Relations].elems)
    IN  [h |-> rels.h,
         t |-> [ StructName |-> IF (dst.StructName = <<>> \/ src.Source = "openapi")
                                   /\ src.StructName # <<>>
                                THEN src.StructName ELSE dst.StructName,
                 NormalizedName |-> dst.NormalizedName,
                 Source |-> "merged",
                 Columns |-> cols.slice,
                 Relations |-> rels.slice ]]

\* stabilizeTableMetadata: sort.Slice sorts the column array in place
stabilizeTableMetadataAt(h, t) ==
    IF t.Columns = <<>> THEN h
    ELSE [h EXCEPT !.mem[t.Columns].elems = sortColumns(@)]

\* the accumulator holds one or two records of an entity, visited in order
InitHeap ==
    /\ PipeIdle
    /\ fnPc = "range"
    /\ \E acc \in {<<a>> : a \in HeapTables} \cup {<<a, b>> : a \in HeapTables, b \in HeapTables} :
         /\ fnIn = [mem |-> LoadedMemory(acc),
                    acc |-> [r \in 1..Len(acc) |-> LoadedTable(r, acc[r])]]
         /\ fnOut = [h |-> [mem |-> LoadedMemory(acc), next |-> 1], visited |-> 0,
                     entity |-> <<>>]

\* the body of the range loop for the next record: clone the first, merge the others
VisitEntry ==
    /\ fnPc = "range"
    /\ fnOut.visited < Len(fnIn.acc)
    /\ LET entry == fnIn.acc[fnOut.visited + 1]
           r == IF fnOut.entity = <<>> THEN cloneTableMetadataAt(fnOut.h, entry)
                ELSE mergeTableMetadataAt(fnOut.h, fnOut.entity[1], entry)
       IN  fnOut' = [h |-> r.h, visited |-> fnOut.visited + 1, entity |-> <<r.t>>]
    /\ UNCHANGED <<fnPc, fnIn, pipeVars>>

\* the second loop: the entity is stabilized and returned
StabilizeEntity ==
    /\ fnPc = "range"
    /\ fnOut.visited = Len(fnIn.acc)
    /\ fnOut' = [fnOut EXCEPT !.h = stabilizeTableMetadataAt(@, fnOut.entity[1])]
    /\ fnPc' = "ret"
    /\ UNCHANGED <<fnIn, pipeVars>>

NextHeap == VisitEntry \/ StabilizeEntity

SpecHeap == InitHeap /\ [][NextHeap]_vars

\* the objects a record reaches: its two backing arrays, the constraint sets
\* of its columns, their enum lists, its relation nodes
Reaches(mem, t) ==
    LET cols == IF t.Columns = <<>> THEN <<>> ELSE mem[t.Columns].elems
        rels == IF t.Relations = <<>> THEN <<>> ELSE mem[t.Relations].elems
        cons == {cols[i].Constraints : i \in 1..Len(cols)} \ {<<>>}
    IN  ({t.Columns, t.Relations} \ {<<>>})
        \cup cons
        \cup ({mem[p].Enum : p \in cons} \ {<<>>})
        \cup {rels[i] : i \in 1..Len(rels)}

\* the objects the accumulator reaches
AccumulatorObjects ==
    UNION {Reaches(fnIn.mem, fnIn.acc[r]) : r \in 1..Len(fnIn.acc)}

\* every object of the accumulator is as it was before consolidation
AccumulatorUnchanged ==
    \A a \in DOMAIN fnIn.mem : fnOut.h.mem[a] = fnIn.mem[a]

\* C19: consolidation leaves every record of the accumulator as it was, and
\* the consolidated record reaches no object (column slice, relation node,
\* constraint set, enum list) that an accumulator record reaches, for a group
\* of one record as for a merged group.
C19_NothingShared ==
    fnPc = "ret" =>
        /\ AccumulatorUnchanged
        /\ Reaches(fnOut.h.mem, fnOut.entity[1]) \cap AccumulatorObjects = {}

(***************************************************************************)
(* mergeColumn exercised alone                                             *)
(***************************************************************************)

\* a column with every scalar field set, one with every scalar field set to
\* other values, and one with every field empty
colRichA ==
    [ Name |-> sName, JSONName |-> sname, Type |-> sstring, Validation |-> "required",
      Description |-> "user name", Additional |-> "hint", Constraints |-> <<>>,
      Ref |-> sUser, IsArray |-> FALSE, Source |-> "go:api" ]
colRichB ==
    [ Name |-> sRoleIDs, JSONName |-> sroleIds, Type |-> sint, Validation |-> "length:6,30",
      Description |-> "role ids", Additional |-> "placeholder", Constraints |-> <<>>,
      Ref |-> sOrder, IsArray |-> TRUE, Source |-> "openapi" ]
colZero ==
    [ Name |-> <<>>, JSONName |-> <<>>, Type |-> <<>>, Validation |-> "",
      Description |-> "", Additional |-> "", Constraints |-> <<>>,
      Ref |-> <<>>, IsArray |-> FALSE, Source |-> "" ]

ScalarFields ==
    {"Name", "JSONName", "Description", "Validation", "Additional", "Ref", "Source"}

\* c with one field taken from colZero, or with the type label "Unknown"
ColumnVariants(c) ==
    {c, [c EXCEPT !.Type = sUnknown], [c EXCEPT !.Type = <<>>]}
    \cup {[f \in DOMAIN c |-> IF f = g THEN colZero[f] ELSE c[f]] : g \in ScalarFields}

MergeColumnInputs == ColumnVariants(colRichA) \cup ColumnVariants(colRichB) \cup {colZero}

InitColumn ==
    /\ PipeIdle
    /\ fnPc = "call"
    /\ fnIn \in {[a |-> x, b |-> y] : x \in MergeColumnInputs, y \in MergeColumnInputs}
    /\ fnOut = <<>>

CallMergeColumn ==
    /\ fnPc = "call"
    /\ fnOut' = <<mergeColumn(fnIn.a, fnIn.b)>>
    /\ fnPc' = "ret"
    /\ UNCHANGED <<fnIn, pipeVars>>

SpecColumn == InitColumn /\ [][CallMergeColumn]_vars

\* the empty Go string in field f: names are sequences of characters
IsEmptyField(c, f) == c[f] = colZero[f]

\* C21: mergeColumn(a, b) keeps each scalar field of a that is not empty and
\* takes b's value for a scalar field of a that is empty; the type label is b's
\* exactly when a's is empty or "Unknown" and b's is not empty, and a's
\* otherwise; the array flag is a.IsArray or b.IsArray.
C21_MergeColumnFieldwise ==
    fnPc = "ret" =>
        LET a == fnIn.a
            b == fnIn.b
            out == fnOut[1]
        IN  /\ \A f \in ScalarFields :
                 /\ ~IsEmptyField(a, f) => out[f] = a[f]
                 /\ IsEmptyField(a, f) => out[f] = b[f]
            /\ (a.Type \in {<<>>, sUnknown} /\ b.Type # <<>>) => out.Type = b.Type
            /\ ~(a.Type \in {<<>>, sUnknown} /\ b.Type # <<>>) => out.Type = a.Type
            /\ out.IsArray = (a.IsArray \/ b.IsArray)

\* a has the type label "Unknown", b has a type and is an array: the result has
\* a's names and description and b's type and array flag
C21_Witness ==
    /\ fnPc = "ret"
    /\ fnIn.a = [colRichA EXCEPT !.Type = sUnknown]
    /\ fnIn.b = colRichB
    /\ fnOut[1].Name = sName
    /\ fnOut[1].Description = "user name"
    /\ fnOut[1].Type = sint
    /\ fnOut[1].IsArray

(***************************************************************************)
(* pickOpenAPIResponseSchemaRefName exercised alone                        *)
(***************************************************************************)

s100 == <<"1", "0", "0">>
s200 == <<"2", "0", "0">>
s201 == <<"2", "0", "1">>
s204 == <<"2", "0", "4">>
s404 == <<"4", "0", "4">>

ResponseCodes == {s100, s200, s201, s204, s404, sDefault}

\* the schema the response of a code refers to, when it refers to one
SchemaOfCode(code) == <<"R">> \o code

\* a response with a JSON body that is a reference, and one without a body
ResponseWithSchema(code) == [Content |-> JSONContent(RefTo(SchemaOfCode(code)))]
ResponseWithoutBody == [Content |-> EmptyMap]

\* the responses maps over a set of codes
ResponsesOver(codes) ==
    {[c \in codes |-> IF c \in bodies THEN ResponseWithSchema(c) ELSE ResponseWithoutBody] :
        bodies \in SUBSET codes}

InitResponses ==
    /\ PipeIdle
    /\ fnPc = "call"
    /\ fnIn \in UNION {ResponsesOver(codes) : codes \in SUBSET ResponseCodes}
    /\ fnOut = <<>>

CallPickResponse ==
    /\ fnPc = "call"
    /\ fnOut' = <<pickOpenAPIResponseSchemaRefName(fnIn)>>
    /\ fnPc' = "ret"
    /\ UNCHANGED <<fnIn, pipeVars>>

SpecResponses == InitResponses /\ [][CallPickResponse]_vars

\* the code whose response is used: the first of 200, 201, 202, 204 that has a
\* response, else "default", else the smallest code
PreferredCode(resps) ==
    IF \E i \in 1..Len(sSuccessCodes) : sSuccessCodes[i] \in DOMAIN resps
    THEN sSuccessCodes[CHOOSE i \in 1..Len(sSuccessCodes) :
                          /\ sSuccessCodes[i] \in DOMAIN resps
                          /\ \A j \in 1..(i - 1) : sSuccessCodes[j] \notin DOMAIN resps]
    ELSE IF sDefault \in DOMAIN resps THEN sDefault
    ELSE CHOOSE c \in DOMAIN resps : \A d \in DOMAIN resps : d = c \/ StrLess(c, d)

sPathUserId == <<"/", "u", "s", "e", "r", "s", "/", "{", "i", "d", "}">>
sPathApiOrders == <<"/", "a", "p", "i", "/", "v", "1", "/", "o", "r", "d", "e", "r", "s">>
sPathRoot == <<"/">>

\* the paths of the operations and what the path heuristic makes of each
PathEntity ==
    (sPathUsers :> sUser) @@ (sPathUserId :> sUser) @@ (sPathApiOrders :> sOrder)
    @@ (sPathRoot :> <<>>)

InferTags == {<<>>, << <<>> >>, <<sClass>>, << <<>>, sClass >>, <<sClass, sReq>>}

InferOperations ==
    { [Operation(sGET, path, sListUsersOp, req, resp) EXCEPT !.Tags = tags] :
        path \in DOMAIN PathEntity,
        req \in {<<>>, sUserCreateReq},
        resp \in {<<>>, sUserDetail},
        tags \in InferTags }

InitInfer ==
    /\ PipeIdle
    /\ fnPc = "call"
    /\ fnIn \in InferOperations
    /\ fnOut = <<>>

CallInferEntityName ==
    /\ fnPc = "call"
    /\ fnOut' = <<inferEntityNameForOperation(fnIn)>>
    /\ fnPc' = "ret"
    /\ UNCHANGED <<fnIn, pipeVars>>

SpecInfer == InitInfer /\ [][CallInferEntityName]_vars

\* the first declared tag, empty when no tag is declared
FirstTag(oi) == IF Len(oi.Tags) > 0 THEN oi.Tags[1] ELSE <<>>

\* C26: the inferred entity name is the request schema name when it is not
\* empty, else the response schema name when it is not empty, else the first
\* declared tag when it is not empty, else what the path heuristic gives; a
\* source is used only when every source before it is empty.
C26_InferencePriority ==
    fnPc = "ret" =>
        LET sources == <<fnIn.RequestSchema, fnIn.ResponseSchema, FirstTag(fnIn),
                         PathEntity[fnIn.Path]>>
        IN  /\ \A i \in 1..3 :
                 (sources[i] # <<>> /\ \A j \in 1..(i - 1) : sources[j] = <<>>)
                     => fnOut[1] = sources[i]
            /\ (\A j \in 1..3 : sources[j] = <<>>) => fnOut[1] = sources[4]

\* no request schema, a response schema and a tag: the response schema name
C26_Witness ==
    /\ fnPc = "ret"
    /\ fnIn.RequestSchema = <<>>
    /\ fnIn.ResponseSchema = sUserDetail
    /\ fnIn.Tags = <<sClass>>
    /\ fnOut[1] = sUserDetail

(***************************************************************************)
(* entityFromPathHeuristic exercised alone                                 *)
(***************************************************************************)

MaxSegments == 3

susers == <<"u", "s", "e", "r", "s">>
svendors == <<"v", "e", "n", "d", "o", "r", "s">>
sapi == <<"a", "p", "i">>
sclass == <<"c", "l", "a", "s", "s">>
sIdParam == <<"{", "i", "d", "}">>
sSubParam == <<"{", "s", "u", "b", "}">>

PathSegments == {susers, svendors, sclass, sapi, sIdParam, sSubParam}

\* "/" followed by the segments joined by "/"
RECURSIVE JoinPath(_)
JoinPath(segs) ==
    IF segs = <<>> THEN <<"/">>
    ELSE IF Len(segs) = 1 THEN <<"/">> \o segs[1]
    ELSE <<"/">> \o Head(segs) \o JoinPath(Tail(segs))

InitPath ==
    /\ PipeIdle
    /\ fnPc = "call"
    /\ fnIn \in SeqsUpTo(PathSegments, MaxSegments)
    /\ fnOut = <<>>

CallEntityFromPath ==
    /\ fnPc = "call"
    /\ fnOut' = <<entityFromPathHeuristic(JoinPath(fnIn))>>
    /\ fnPc' = "ret"
    /\ UNCHANGED <<fnIn, pipeVars>>

SpecPath == InitPath /\ [][CallEntityFromPath]_vars

\* a segment written in braces stands for a parameter
IsParameter(seg) == Len(seg) > 0 /\ seg[1] = "{"

\* the last segment that is not a parameter, when there is one
LastPlainSegment(segs) ==
    segs[CHOOSE i \in 1..Len(segs) :
            ~IsParameter(segs[i]) /\ \A j \in (i + 1)..Len(segs) : IsParameter(segs[j])]

\* a segment without one trailing "s" and with its first letter in upper case
Singular(seg) ==
    LET stem == IF Len(seg) > 0 /\ seg[Len(seg)] = "s" THEN SubSeq(seg, 1, Len(seg) - 1) ELSE seg
    IN  IF stem = <<>> THEN <<>> ELSE <<UpperChar(stem[1])>> \o Tail(stem)

\* C27: for a path with a segment that is not a parameter the heuristic gives
\* the last such segment, without one trailing "s" and with its first letter
\* in upper case; it never gives a parameter segment, and it gives the empty
\* string only for a path without a segment that is not a parameter.
C27_LastPlainSegment ==
    fnPc = "ret" =>
        /\ ~IsParameter(fnOut[1])
        /\ IF \E i \in 1..Len(fnIn) : ~IsParameter(fnIn[i])
           THEN fnOut[1] = Singular(LastPlainSegment(fnIn)) /\ fnOut[1] # <<>>
           ELSE fnOut[1] = <<>>

(***************************************************************************)
(* The generator (gen_quasar.go) and the parser normalize the same name:   *)
(* the parser when it names the entity of a struct or schema, the          *)
(* generator when buildRelationView looks the target of a relation up.     *)
(***************************************************************************)

\* normalizeEntityName of gen_quasar.go: the same prefix and suffix lists
normalizeEntityNameInGenerator(name) ==
    LET cleaned == TrimSuffixes(TrimPrefixes(name, prefixes), suffixes)
    IN  IF cleaned = <<>> THEN name ELSE cleaned

\* buildRelationView: target and normTarget, the name the entity list is
\* searched for
buildRelationView(rel) ==
    LET target == normalizeEntityNameInGenerator(rel.TargetStruct)
    IN  [target |-> target, normTarget |-> normalizeEntityNameInGenerator(target)]

\* a relation to a struct of any of the raw names
InitJoin ==
    /\ PipeIdle
    /\ fnPc = "call"
    /\ fnIn \in {Relation(sDetail, name, FALSE, suid, sid, "") : name \in RawNames}
    /\ fnOut = <<>>

\* the parser names the entity of the target struct, the generator resolves
\* the relation
CallBuildRelationView ==
    /\ fnPc = "call"
    /\ fnOut' = [entity |-> normalizeEntityName(fnIn.TargetStruct),
                 view |-> buildRelationView(fnIn)]
    /\ fnPc' = "ret"
    /\ UNCHANGED <<fnIn, pipeVars>>

SpecJoin == InitJoin /\ [][CallBuildRelationView]_vars

\* C30: the generator's normalizeEntityName gives what the parser's gives for
\* every raw name, and the normalized target that buildRelationView looks up
\* is the NormalizedName the parser gave the entity of the target struct.
C30_SameNormalization ==
    fnPc = "ret" =>
        /\ normalizeEntityNameInGenerator(fnIn.TargetStruct)
               = normalizeEntityName(fnIn.TargetStruct)
        /\ fnOut.view.target = fnOut.entity
        /\ fnOut.view.normTarget = fnOut.entity

====
